---- MODULE Spec2Model ----
(***************************************************************************)
(* A model of the Hawk authentication library (crate `hawk`): the          *)
(* canonical MAC input, the Header and Bewit codecs, and the Request       *)
(* generate / validate operations.                                         *)
(*                                                                         *)
(* Conventions                                                             *)
(*   - text and byte strings are sequences of byte codes (ASCII), so that  *)
(*     formatting, parsing and base64 are computed, not assumed;           *)
(*   - Option<T> is a sequence of length 0 (None) or 1 (Some(v));          *)
(*   - Result<T> is a sequence of length 0 (Err) or 1 (Ok(v));             *)
(*   - time::Timespec is [sec, nsec]; a second holds SubSec clock units.   *)
(***************************************************************************)
EXTENDS Integers, Sequences, FiniteSets, TLC

VARIABLES now, request, credentials, header, bewit, wire, origin, result, expiredSeen,
          signing, hasher

vars == <<now, request, credentials, header, bewit, wire, origin, result, expiredSeen,
         signing, hasher>>

----------------------------------------------------------------------------
(* Bounds of the model.                                                    *)

\* clock units per second (the real clock has 10^9)
SubSec == 3
\* the clock runs from 0 to MaxTicks clock units
MaxTicks == 3

----------------------------------------------------------------------------
(* Option / Result.                                                        *)

None == <<>>
Some(v) == <<v>>
IsSome(o) == Len(o) = 1
IsNone(o) == Len(o) = 0
Unwrap(o) == o[1]
Err == <<>>
Ok(v) == <<v>>
IsOk(r) == Len(r) = 1
IsErr(r) == Len(r) = 0

----------------------------------------------------------------------------
(* Characters the code names.                                              *)

QUOTE == 34
BACKSLASH == 92
NEWLINE == 10
COMMA == 44
EQUALS == 61
SPACE == 32
PAD == 61
MINUS == 45
PLUS == 43

----------------------------------------------------------------------------
(* Slices and searches of Rust's str / [u8].                               *)

\* &s[i..] with a 0-based byte offset i
From(s, i) == SubSeq(s, i + 1, Len(s))
\* &s[..i]
Upto(s, i) == SubSeq(s, 1, i)

\* str::find(c): Some(0-based offset of the first c) or None
RECURSIVE FindFrom(_, _, _)
FindFrom(s, c, i) ==
    IF i > Len(s) THEN None
    ELSE IF s[i] = c THEN Some(i - 1)
    ELSE FindFrom(s, c, i + 1)
Find(s, c) == FindFrom(s, c, 1)

Contains(s, c) == \E i \in 1..Len(s) : s[i] = c

\* char::is_whitespace on ASCII
IsWhitespace(c) == c \in {9, 10, 11, 12, 13, 32}

RECURSIVE TrimLeftMatches(_, _)
TrimLeftMatches(s, set) ==
    IF s # <<>> /\ s[1] \in set THEN TrimLeftMatches(Tail(s), set) ELSE s

TrimLeft(s) == TrimLeftMatches(s, {9, 10, 11, 12, 13, 32})

RECURSIVE TrimRight(_)
TrimRight(s) ==
    IF s # <<>> /\ IsWhitespace(s[Len(s)]) THEN TrimRight(Upto(s, Len(s) - 1)) ELSE s

Trim(s) == TrimRight(TrimLeft(s))

\* slice::split(|c| *c == sep): the parts between separators, empty ones kept
RECURSIVE SplitOn(_, _)
SplitOn(s, sep) ==
    LET f == Find(s, sep)
    IN  IF IsNone(f) THEN <<s>>
        ELSE <<Upto(s, Unwrap(f))>> \o SplitOn(From(s, Unwrap(f) + 1), sep)

----------------------------------------------------------------------------
(* Decimal integers: Display for i64 / u16 and i64::from_str.              *)

Digit(d) == 48 + d

RECURSIVE FmtNat(_)
FmtNat(n) == IF n < 10 THEN <<Digit(n)>> ELSE FmtNat(n \div 10) \o <<Digit(n % 10)>>

FmtInt(n) == IF n < 0 THEN <<MINUS>> \o FmtNat(-n) ELSE FmtNat(n)

IsDigit(c) == c >= 48 /\ c <= 57

RECURSIVE ParseNat(_, _)
ParseNat(s, acc) ==
    IF s = <<>> THEN acc ELSE ParseNat(Tail(s), acc * 10 + (s[1] - 48))

\* the digits of i64::MAX, 9223372036854775807
I64MaxDigits ==
    <<57, 50, 50, 51, 51, 55, 50, 48, 51, 54, 56, 53, 52, 55, 55, 53, 56, 48, 55>>

\* whether the number written by the digits a is above the one written by b
\* (b without leading zeros)
DigitsAbove(a, b) ==
    LET a0 == TrimLeftMatches(a, {48})
    IN  \/ Len(a0) > Len(b)
        \/ /\ Len(a0) = Len(b)
           /\ \E i \in 1..Len(b) : /\ a0[i] > b[i]
                                    /\ \A j \in 1..(i - 1) : a0[j] = b[j]

\* i64::from_str: an optional sign, then at least one digit and nothing else,
\* and a value from i64::MIN to i64::MAX
ParseInt(s) ==
    LET signed == s # <<>> /\ s[1] \in {MINUS, PLUS}
        digits == IF signed THEN Tail(s) ELSE s
        negative == signed /\ s[1] = MINUS
    IN  IF digits = <<>> \/ \E i \in 1..Len(digits) : ~IsDigit(digits[i]) THEN Err
        ELSE IF ~negative /\ DigitsAbove(digits, I64MaxDigits) THEN Err
        ELSE IF negative /\ DigitsAbove(digits, Upto(I64MaxDigits, 18) \o <<56>>) THEN Err
        ELSE IF negative THEN Ok(-ParseNat(digits, 0))
        ELSE Ok(ParseNat(digits, 0))

----------------------------------------------------------------------------
(* base64 (crate base64): the STANDARD and URL_SAFE alphabets.             *)

\* the character of a 6-bit value; the two alphabets differ at 62 and 63
B64Char(v, urlsafe) ==
    IF v < 26 THEN 65 + v
    ELSE IF v < 52 THEN 97 + (v - 26)
    ELSE IF v < 62 THEN 48 + (v - 52)
    ELSE IF v = 62 THEN (IF urlsafe THEN 45 ELSE 43)
    ELSE (IF urlsafe THEN 95 ELSE 47)

\* the 6-bit value of a character, or -1 when it is not in the alphabet
B64Value(c, urlsafe) ==
    IF c >= 65 /\ c <= 90 THEN c - 65
    ELSE IF c >= 97 /\ c <= 122 THEN c - 97 + 26
    ELSE IF c >= 48 /\ c <= 57 THEN c - 48 + 52
    ELSE IF c = (IF urlsafe THEN 45 ELSE 43) THEN 62
    ELSE IF c = (IF urlsafe THEN 95 ELSE 47) THEN 63
    ELSE -1

RECURSIVE B64EncodeConfig(_, _, _)
B64EncodeConfig(bytes, urlsafe, pad) ==
    IF bytes = <<>> THEN <<>>
    ELSE IF Len(bytes) = 1 THEN
        <<B64Char(bytes[1] \div 4, urlsafe), B64Char((bytes[1] % 4) * 16, urlsafe)>>
        \o (IF pad THEN <<PAD, PAD>> ELSE <<>>)
    ELSE IF Len(bytes) = 2 THEN
        <<B64Char(bytes[1] \div 4, urlsafe),
          B64Char((bytes[1] % 4) * 16 + bytes[2] \div 16, urlsafe),
          B64Char((bytes[2] % 16) * 4, urlsafe)>>
        \o (IF pad THEN <<PAD>> ELSE <<>>)
    ELSE
        <<B64Char(bytes[1] \div 4, urlsafe),
          B64Char((bytes[1] % 4) * 16 + bytes[2] \div 16, urlsafe),
          B64Char((bytes[2] % 16) * 4 + bytes[3] \div 64, urlsafe),
          B64Char(bytes[3] % 64, urlsafe)>>
        \o B64EncodeConfig(From(bytes, 3), urlsafe, pad)

\* base64::encode: STANDARD alphabet, padded
B64Encode(bytes) == B64EncodeConfig(bytes, FALSE, TRUE)

\* base64::encode_config(.., URL_SAFE_NO_PAD)
B64EncodeUrlNoPad(bytes) == B64EncodeConfig(bytes, TRUE, FALSE)

RECURSIVE StripPad(_)
StripPad(s) == IF s # <<>> /\ s[Len(s)] = PAD THEN StripPad(Upto(s, Len(s) - 1)) ELSE s

RECURSIVE B64DecodeGroups(_)
B64DecodeGroups(v) ==
    IF Len(v) < 2 THEN <<>>
    ELSE IF Len(v) = 2 THEN <<v[1] * 4 + v[2] \div 16>>
    ELSE IF Len(v) = 3 THEN <<v[1] * 4 + v[2] \div 16, (v[2] % 16) * 16 + v[3] \div 4>>
    ELSE <<v[1] * 4 + v[2] \div 16, (v[2] % 16) * 16 + v[3] \div 4, (v[3] % 4) * 64 + v[4]>>
         \o B64DecodeGroups(From(v, 4))

\* base64::decode: STANDARD alphabet; trailing padding is optional (the crate's
\* own tests decode unpadded input with it), any other byte is an error
B64Decode(s) ==
    LET body == StripPad(s)
        vals == [i \in 1..Len(body) |-> B64Value(body[i], FALSE)]
    IN  IF Len(s) - Len(body) > 2 THEN Err
        ELSE IF \E i \in 1..Len(body) : vals[i] < 0 THEN Err
        ELSE IF Len(body) % 4 = 1 THEN Err
        ELSE Ok(B64DecodeGroups(vals))

----------------------------------------------------------------------------
(* str::from_utf8 / String::from_utf8: whether the bytes are well-formed   *)
(* UTF-8 (lead byte, then the continuation bytes it announces).            *)

IsCont(b) == b >= 128 /\ b <= 191

RECURSIVE IsUtf8(_)
IsUtf8(s) ==
    IF s = <<>> THEN TRUE
    ELSE IF s[1] < 128 THEN IsUtf8(Tail(s))
    ELSE IF s[1] >= 194 /\ s[1] <= 223 THEN
        Len(s) >= 2 /\ IsCont(s[2]) /\ IsUtf8(From(s, 2))
    ELSE IF s[1] >= 224 /\ s[1] <= 239 THEN
        Len(s) >= 3 /\ IsCont(s[2]) /\ IsCont(s[3]) /\ IsUtf8(From(s, 3))
    ELSE IF s[1] >= 240 /\ s[1] <= 244 THEN
        Len(s) >= 4 /\ IsCont(s[2]) /\ IsCont(s[3]) /\ IsCont(s[4]) /\ IsUtf8(From(s, 4))
    ELSE FALSE

----------------------------------------------------------------------------
(* time::Timespec and time::Duration (a Duration is a number of clock      *)
(* units, possibly negative).                                              *)

Timespec(s, n) == [sec |-> s, nsec |-> n]

\* derived PartialOrd: by sec, then by nsec
TsLess(a, b) == a.sec < b.sec \/ (a.sec = b.sec /\ a.nsec < b.nsec)

\* Timespec - Timespec
TsSub(a, b) == (a.sec - b.sec) * SubSec + (a.nsec - b.nsec)

\* Timespec + Duration, normalised so that 0 <= nsec < SubSec
TsAdd(t, d) ==
    LET total == t.sec * SubSec + t.nsec + d
    IN  Timespec(total \div SubSec, total % SubSec)

----------------------------------------------------------------------------
(* mac.rs: the canonical MAC input and the Mac.                            *)

HeaderType == "Header"
ResponseType == "Response"
BewitType == "Bewit"

\* "hawk.1.header", "hawk.1.response", "hawk.1.bewit"
HawkPrefix == <<104, 97, 119, 107, 46, 49, 46>>
\* one tag for every type of MAC
TypeTagSame(mac_type) == HawkPrefix \o <<104, 101, 97, 100, 101, 114>>

TypeTag(mac_type) ==
    IF mac_type = HeaderType THEN HawkPrefix \o <<104, 101, 97, 100, 101, 114>>
    ELSE IF mac_type = ResponseType
        THEN HawkPrefix \o <<114, 101, 115, 112, 111, 110, 115, 101>>
    ELSE HawkPrefix \o <<98, 101, 119, 105, 116>>

MacParams(mac_type, ts, nonce, method, host, port, path, hash, ext) ==
    [mac_type |-> mac_type, ts |-> ts, nonce |-> nonce, method |-> method,
     host |-> host, port |-> port, path |-> path, hash |-> hash, ext |-> ext]

\* a canonical string with the host line before the path line
MacParamsDisplayHostFirst(p) ==
    TypeTag(p.mac_type) \o <<NEWLINE>>
    \o FmtInt(p.ts.sec) \o <<NEWLINE>>
    \o p.nonce \o <<NEWLINE>>
    \o p.method \o <<NEWLINE>>
    \o p.host \o <<NEWLINE>>
    \o p.path \o <<NEWLINE>>
    \o FmtInt(p.port) \o <<NEWLINE>>
    \o (IF IsSome(p.hash) THEN B64Encode(Unwrap(p.hash)) \o <<NEWLINE>> ELSE <<NEWLINE>>)
    \o (IF IsSome(p.ext) THEN Unwrap(p.ext) \o <<NEWLINE>> ELSE <<NEWLINE>>)

\* a canonical string that leaves the port line out
MacParamsDisplayNoPort(p) ==
    TypeTag(p.mac_type) \o <<NEWLINE>>
    \o FmtInt(p.ts.sec) \o <<NEWLINE>>
    \o p.nonce \o <<NEWLINE>>
    \o p.method \o <<NEWLINE>>
    \o p.path \o <<NEWLINE>>
    \o p.host \o <<NEWLINE>>
    \o (IF IsSome(p.hash) THEN B64Encode(Unwrap(p.hash)) \o <<NEWLINE>> ELSE <<NEWLINE>>)
    \o (IF IsSome(p.ext) THEN Unwrap(p.ext) \o <<NEWLINE>> ELSE <<NEWLINE>>)

\* a canonical string that leaves the host line out
MacParamsDisplayNoHost(p) ==
    TypeTag(p.mac_type) \o <<NEWLINE>>
    \o FmtInt(p.ts.sec) \o <<NEWLINE>>
    \o p.nonce \o <<NEWLINE>>
    \o p.method \o <<NEWLINE>>
    \o p.path \o <<NEWLINE>>
    \o FmtInt(p.port) \o <<NEWLINE>>
    \o (IF IsSome(p.hash) THEN B64Encode(Unwrap(p.hash)) \o <<NEWLINE>> ELSE <<NEWLINE>>)
    \o (IF IsSome(p.ext) THEN Unwrap(p.ext) \o <<NEWLINE>> ELSE <<NEWLINE>>)

\* impl Display for MacParams: one newline-terminated line per field
MacParamsDisplay(p) ==
    TypeTag(p.mac_type) \o <<NEWLINE>>
    \o FmtInt(p.ts.sec) \o <<NEWLINE>>
    \o p.nonce \o <<NEWLINE>>
    \o p.method \o <<NEWLINE>>
    \o p.path \o <<NEWLINE>>
    \o p.host \o <<NEWLINE>>
    \o FmtInt(p.port) \o <<NEWLINE>>
    \o (IF IsSome(p.hash) THEN B64Encode(Unwrap(p.hash)) \o <<NEWLINE>> ELSE <<NEWLINE>>)
    \o (IF IsSome(p.ext) THEN Unwrap(p.ext) \o <<NEWLINE>> ELSE <<NEWLINE>>)

\* The HMAC of the cryptographic provider, which the crate only calls: a keyed
\* function from byte strings to four bytes.  It is modelled by a keyed 24-bit
\* polynomial checksum and a length byte, which tell apart all the inputs the
\* model signs.
Checksum(data, seed) ==
    LET f[i \in 0..Len(data)] ==
            IF i = 0 THEN seed % 16777216 ELSE (f[i - 1] * 31 + data[i] + 1) % 16777216
    IN  f[Len(data)]

\* Key::signer + write! + SignedWriter::finish_into_vec
KeySign(key, data) ==
    LET h == Checksum(data, 65537 * key)
    IN  <<h \div 65536, (h \div 256) % 256, h % 256, (7 * Len(data) + key) % 256>>

\* Vec::resize(n, 0): cut to n bytes, or padded with zeros up to n
Resize(dest, n) == [i \in 1..n |-> IF i <= Len(dest) THEN dest[i] ELSE 0]

\* SignedWriter::finish_into: the signature sig is written to the start of dest
FinishInto(dest, sig) == [i \in 1..Len(dest) |-> IF i <= Len(sig) THEN sig[i] ELSE dest[i]]

\* a finish_into_vec that appends the signature to what dest held
FinishIntoVecAppend(dest, sig) == dest \o sig

\* SignedWriter::finish_into_vec: resize to signer.len(), write, truncate to the
\* length written (signer.len() is the digest's length, the length of sig)
FinishIntoVec(dest, sig) == Upto(FinishInto(Resize(dest, Len(sig)), sig), Len(sig))

\* Mac::sign: the signature of the canonical string is written into the Mac
MacSign(self, key, mac_params) ==
    FinishIntoVec(self, KeySign(key, MacParamsDisplay(mac_params)))

\* Mac::new_signed
MacNewSigned(key, mac_params) == Ok(MacSign(<<>>, key, mac_params))

\* Mac::new (deprecated wrapper)
MacNew(mac_type, key, ts, nonce, method, host, port, path, hash, ext) ==
    MacNewSigned(key, MacParams(mac_type, ts, nonce, method, host, port, path, hash, ext))

\* impl PartialEq for Mac: openssl::memcmp::eq asserts that both slices have the
\* same length and panics otherwise
MacEq(a, b) ==
    IF Len(a) # Len(b) THEN "panic"
    ELSE IF a = b THEN "eq"
    ELSE "ne"

----------------------------------------------------------------------------
(* payload.rs: the PayloadHasher.  The Hasher of the cryptographic         *)
(* provider is a running state that update feeds byte by byte; it is       *)
(* modelled by a 24-bit polynomial checksum and a count of the bytes fed.  *)

\* MessageDigest::size, in bytes of the model's digests
DigestSize(digest) == IF digest = "sha256" THEN 4 ELSE 3

\* Hasher::new(digest)
HasherNew(digest) == [acc |-> IF digest = "sha256" THEN 256 ELSE 1, len |-> 0]

\* Hasher::update(data)
HasherUpdate(h, data) ==
    LET f[i \in 0..Len(data)] ==
            IF i = 0 THEN h.acc ELSE (f[i - 1] * 31 + data[i] + 1) % 16777216
    IN  [acc |-> f[Len(data)], len |-> h.len + Len(data)]

\* Hasher::finish(): the digest, DigestSize bytes long
HasherFinish(h, digest) ==
    Upto(<<h.acc % 256, (h.acc \div 256) % 256, h.acc \div 65536, h.len % 256>>,
         DigestSize(digest))

\* "hawk.1.payload\n"
PayloadPrefix == HawkPrefix \o <<112, 97, 121, 108, 111, 97, 100, NEWLINE>>

\* an update that ends every chunk with a newline
PayloadHasherUpdateLines(self, data) ==
    [self EXCEPT !.hasher = HasherUpdate(HasherUpdate(self.hasher, data), <<NEWLINE>>)]

\* PayloadHasher::update
PayloadHasherUpdate(self, data) ==
    [self EXCEPT !.hasher = HasherUpdate(self.hasher, data)]

\* PayloadHasher::new
PayloadHasherNew(content_type, digest) ==
    LET fresh == [hasher |-> HasherNew(digest), digest |-> digest]
    IN  PayloadHasherUpdate(
            PayloadHasherUpdate(PayloadHasherUpdate(fresh, PayloadPrefix), content_type),
            <<NEWLINE>>)

\* PayloadHasher::finish
PayloadHasherFinish(self) ==
    LET digest == HasherFinish(PayloadHasherUpdate(self, <<NEWLINE>>).hasher, self.digest)
        rv == [i \in 1..DigestSize(self.digest) |-> 0]
    IN  [i \in 1..Len(rv) |-> digest[i]]

\* PayloadHasher::hash
PayloadHasherHash(content_type, digest, payload) ==
    PayloadHasherFinish(PayloadHasherUpdate(PayloadHasherNew(content_type, digest), payload))

----------------------------------------------------------------------------
(* header.rs: the Header and its codec.                                    *)

Header(id, ts, nonce, mac, ext, hash, app, dlg) ==
    [id |-> id, ts |-> ts, nonce |-> nonce, mac |-> mac,
     ext |-> ext, hash |-> hash, app |-> app, dlg |-> dlg]

EmptyHeader == Header(None, None, None, None, None, None, None, None)

\* a check_component that accepts every value
CheckComponentLenient(value) == Ok(value)

\* Header::check_component: Err when the component holds a double quote
CheckComponent(value) ==
    IF IsSome(value) /\ Contains(Unwrap(value), QUOTE) THEN Err ELSE Ok(value)

\* Header::new
HeaderNew(id, ts, nonce, mac, ext, hash, app, dlg) ==
    IF \/ IsErr(CheckComponent(id))
       \/ IsErr(CheckComponent(nonce))
       \/ IsErr(CheckComponent(ext))
       \/ IsErr(CheckComponent(app))
       \/ IsErr(CheckComponent(dlg))
    THEN Err
    ELSE Ok(Header(Unwrap(CheckComponent(id)), ts, Unwrap(CheckComponent(nonce)), mac,
                   Unwrap(CheckComponent(ext)), hash, Unwrap(CheckComponent(app)),
                   Unwrap(CheckComponent(dlg))))

\* write!(f, "{}name=\"{}\"", sep, value)
FmtField(sep, name, value) == sep \o name \o <<EQUALS, QUOTE>> \o value \o <<QUOTE>>

NameId == <<105, 100>>
NameTs == <<116, 115>>
NameNonce == <<110, 111, 110, 99, 101>>
NameMac == <<109, 97, 99>>
NameExt == <<101, 120, 116>>
NameHash == <<104, 97, 115, 104>>
NameApp == <<97, 112, 112>>
NameDlg == <<100, 108, 103>>

\* a separator written in front of the first field too
SepAlways(written) == <<COMMA, SPACE>>

\* the separator in front of a field: "" before the first one written, ", " after
Sep(written) == IF written = <<>> THEN <<>> ELSE <<COMMA, SPACE>>

\* Header::fmt_header
FmtHeader(self) ==
    LET s1 == IF IsSome(self.id) THEN FmtField(<<>>, NameId, Unwrap(self.id)) ELSE <<>>
        s2 == IF IsSome(self.ts)
              THEN s1 \o FmtField(Sep(s1), NameTs, FmtInt(Unwrap(self.ts).sec)) ELSE s1
        s3 == IF IsSome(self.nonce)
              THEN s2 \o FmtField(Sep(s2), NameNonce, Unwrap(self.nonce)) ELSE s2
        s4 == IF IsSome(self.mac)
              THEN s3 \o FmtField(Sep(s3), NameMac, B64Encode(Unwrap(self.mac))) ELSE s3
        s5 == IF IsSome(self.ext)
              THEN s4 \o FmtField(Sep(s4), NameExt, Unwrap(self.ext)) ELSE s4
        s6 == IF IsSome(self.hash)
              THEN s5 \o FmtField(Sep(s5), NameHash, B64Encode(Unwrap(self.hash))) ELSE s5
        s7 == IF IsSome(self.app)
              THEN s6 \o FmtField(Sep(s6), NameApp, Unwrap(self.app)) ELSE s6
    IN  IF IsSome(self.dlg) THEN s7 \o FmtField(Sep(s7), NameDlg, Unwrap(self.dlg)) ELSE s7

\* a match that skips an attribute it does not know
SetAttrIgnoreUnknown(h, attr, val) ==
    IF attr = NameId THEN Ok([h EXCEPT !.id = Some(val)])
    ELSE IF attr = NameTs THEN
        (IF IsErr(ParseInt(val)) THEN Err
         ELSE Ok([h EXCEPT !.ts = Some(Timespec(Unwrap(ParseInt(val)), 0))]))
    ELSE IF attr = NameMac THEN
        (IF IsErr(B64Decode(val)) THEN Err
         ELSE Ok([h EXCEPT !.mac = Some(Unwrap(B64Decode(val)))]))
    ELSE IF attr = NameNonce THEN Ok([h EXCEPT !.nonce = Some(val)])
    ELSE IF attr = NameExt THEN Ok([h EXCEPT !.ext = Some(val)])
    ELSE IF attr = NameHash THEN
        (IF IsErr(B64Decode(val)) THEN Err
         ELSE Ok([h EXCEPT !.hash = Some(Unwrap(B64Decode(val)))]))
    ELSE IF attr = NameApp THEN Ok([h EXCEPT !.app = Some(val)])
    ELSE IF attr = NameDlg THEN Ok([h EXCEPT !.dlg = Some(val)])
    ELSE Ok(h)

\* a match that keeps the value an attribute already has
SetAttrFirstWins(h, attr, val) ==
    LET Keep(old, new) == IF IsSome(old) THEN old ELSE Some(new)
    IN  IF attr = NameId THEN Ok([h EXCEPT !.id = Keep(h.id, val)])
        ELSE IF attr = NameTs THEN
            (IF IsErr(ParseInt(val)) THEN Err
             ELSE Ok([h EXCEPT !.ts = Keep(h.ts, Timespec(Unwrap(ParseInt(val)), 0))]))
        ELSE IF attr = NameMac THEN
            (IF IsErr(B64Decode(val)) THEN Err
             ELSE Ok([h EXCEPT !.mac = Keep(h.mac, Unwrap(B64Decode(val)))]))
        ELSE IF attr = NameNonce THEN Ok([h EXCEPT !.nonce = Keep(h.nonce, val)])
        ELSE IF attr = NameExt THEN Ok([h EXCEPT !.ext = Keep(h.ext, val)])
        ELSE IF attr = NameHash THEN
            (IF IsErr(B64Decode(val)) THEN Err
             ELSE Ok([h EXCEPT !.hash = Keep(h.hash, Unwrap(B64Decode(val)))]))
        ELSE IF attr = NameApp THEN Ok([h EXCEPT !.app = Keep(h.app, val)])
        ELSE IF attr = NameDlg THEN Ok([h EXCEPT !.dlg = Keep(h.dlg, val)])
        ELSE Err

\* the match on the attribute name in Header::from_str: the header with the
\* attribute set, or Err (unknown name, bad ts, bad base64)
SetAttr(h, attr, val) ==
    IF attr = NameId THEN Ok([h EXCEPT !.id = Some(val)])
    ELSE IF attr = NameTs THEN
        (IF IsErr(ParseInt(val)) THEN Err
         ELSE Ok([h EXCEPT !.ts = Some(Timespec(Unwrap(ParseInt(val)), 0))]))
    ELSE IF attr = NameMac THEN
        (IF IsErr(B64Decode(val)) THEN Err
         ELSE Ok([h EXCEPT !.mac = Some(Unwrap(B64Decode(val)))]))
    ELSE IF attr = NameNonce THEN Ok([h EXCEPT !.nonce = Some(val)])
    ELSE IF attr = NameExt THEN Ok([h EXCEPT !.ext = Some(val)])
    ELSE IF attr = NameHash THEN
        (IF IsErr(B64Decode(val)) THEN Err
         ELSE Ok([h EXCEPT !.hash = Some(Unwrap(B64Decode(val)))]))
    ELSE IF attr = NameApp THEN Ok([h EXCEPT !.app = Some(val)])
    ELSE IF attr = NameDlg THEN Ok([h EXCEPT !.dlg = Some(val)])
    ELSE Err

\* the `while !p.is_empty()` loop of Header::from_str, h holding the attributes
\* read so far
RECURSIVE HeaderParseLoop(_, _)
HeaderParseLoop(p, h) ==
    IF p = <<>> THEN Ok(h)
    ELSE
      LET p1 == TrimLeftMatches(p, {COMMA, 9, 10, 11, 12, 13, 32})
          eq == Find(p1, EQUALS)
      IN  IF IsNone(eq) THEN Err
          ELSE
            LET attr == Trim(Upto(p1, Unwrap(eq)))
                p2 == TrimLeft(From(p1, Unwrap(eq) + 1))
            IN  IF p2 = <<>> \/ p2[1] # QUOTE THEN Err
                ELSE
                  LET p3 == From(p2, 1)
                      end == Find(p3, QUOTE)
                  IN  IF IsNone(end) THEN Err
                      ELSE
                        LET val == Upto(p3, Unwrap(end))
                            h2 == SetAttr(h, attr, val)
                        IN  IF IsErr(h2) THEN Err
                            ELSE HeaderParseLoop(TrimLeft(From(p3, Unwrap(end) + 1)),
                                                 Unwrap(h2))

\* a parser that refuses a separator in front of the first field
HeaderFromStrNoLead(s) ==
    IF s # <<>> /\ s[1] \in {COMMA, 9, 10, 11, 12, 13, 32} THEN Err
    ELSE HeaderParseLoop(s, EmptyHeader)

\* a parser that drops the separators behind the last field first
HeaderFromStrLenientTail(s) ==
    LET Rev(t) == [i \in 1..Len(t) |-> t[Len(t) + 1 - i]]
    IN  HeaderParseLoop(Rev(TrimLeftMatches(Rev(s), {COMMA, 9, 10, 11, 12, 13, 32})),
                        EmptyHeader)

\* a parser that refuses the empty text
HeaderFromStrNonEmpty(s) == IF s = <<>> THEN Err ELSE HeaderParseLoop(s, EmptyHeader)

\* impl FromStr for Header
HeaderFromStr(s) == HeaderParseLoop(s, EmptyHeader)

----------------------------------------------------------------------------
(* bewit.rs: the Bewit and its codec.                                      *)

\* Bewit::new
BewitNew(id, exp, mac, ext) == [id |-> id, exp |-> exp, mac |-> mac, ext |-> ext]

\* Bewit::to_str
BewitToStr(self) ==
    LET raw == self.id \o <<BACKSLASH>>
               \o FmtInt(self.exp.sec) \o <<BACKSLASH>>
               \o B64Encode(self.mac) \o <<BACKSLASH>>
               \o (IF IsSome(self.ext) THEN Unwrap(self.ext) ELSE <<>>)
    IN  B64EncodeUrlNoPad(raw)

\* a from_str that reads the first four parts and lets more follow
BewitFromStrAtLeastFour(s) ==
    LET decoded == B64Decode(s)
    IN  IF IsErr(decoded) THEN Err
        ELSE
          LET parts == SplitOn(Unwrap(decoded), BACKSLASH)
          IN  IF Len(parts) < 4 THEN Err
              ELSE IF ~IsUtf8(parts[1]) THEN Err
              ELSE IF ~IsUtf8(parts[2]) \/ IsErr(ParseInt(parts[2])) THEN Err
              ELSE IF ~IsUtf8(parts[3]) \/ IsErr(B64Decode(parts[3])) THEN Err
              ELSE IF Len(parts[4]) # 0 /\ ~IsUtf8(parts[4]) THEN Err
              ELSE Ok(BewitNew(parts[1],
                               Timespec(Unwrap(ParseInt(parts[2])), 0),
                               Unwrap(B64Decode(parts[3])),
                               IF Len(parts[4]) = 0 THEN None ELSE Some(parts[4])))

\* impl FromStr for Bewit
BewitFromStr(s) ==
    LET decoded == B64Decode(s)
    IN  IF IsErr(decoded) THEN Err
        ELSE
          LET parts == SplitOn(Unwrap(decoded), BACKSLASH)
          IN  IF Len(parts) # 4 THEN Err
              ELSE IF ~IsUtf8(parts[1]) THEN Err
              ELSE IF ~IsUtf8(parts[2]) \/ IsErr(ParseInt(parts[2])) THEN Err
              ELSE IF ~IsUtf8(parts[3]) \/ IsErr(B64Decode(parts[3])) THEN Err
              ELSE IF Len(parts[4]) # 0 /\ ~IsUtf8(parts[4]) THEN Err
              ELSE Ok(BewitNew(parts[1],
                               Timespec(Unwrap(ParseInt(parts[2])), 0),
                               Unwrap(B64Decode(parts[3])),
                               IF Len(parts[4]) = 0 THEN None ELSE Some(parts[4])))

----------------------------------------------------------------------------
(* credentials.rs / request.rs: Credentials, Request and its operations.   *)
(* The clock reading an operation takes (time::now()) is its parameter t.  *)

Credentials(id, key) == [id |-> id, key |-> key]

Request(method, host, port, path, hash, ext, app, dlg) ==
    [method |-> method, host |-> host, port |-> port, path |-> path,
     hash |-> hash, ext |-> ext, app |-> app, dlg |-> dlg]

\* a make_header_full that signs the id along with the nonce
MakeHeaderFullSignsId(self, creds, ts, nonce) ==
    LET mac == MacNew(HeaderType, creds.key, ts, nonce \o creds.id, self.method,
                      self.host, self.port, self.path, self.hash, self.ext)
    IN  IF IsErr(mac) THEN Err
        ELSE HeaderNew(Some(creds.id), Some(ts), Some(nonce), Some(Unwrap(mac)),
                       self.ext, self.hash, self.app, self.dlg)

\* a make_header_full that hands the Request's app on as dlg
MakeHeaderFullAppAsDlg(self, creds, ts, nonce) ==
    LET mac == MacNew(HeaderType, creds.key, ts, nonce, self.method, self.host,
                      self.port, self.path, self.hash, self.ext)
    IN  IF IsErr(mac) THEN Err
        ELSE HeaderNew(Some(creds.id), Some(ts), Some(nonce), Some(Unwrap(mac)),
                       self.ext, self.hash, self.dlg, self.app)

\* Request::make_header_full
MakeHeaderFull(self, creds, ts, nonce) ==
    LET mac == MacNew(HeaderType, creds.key, ts, nonce, self.method, self.host,
                      self.port, self.path, self.hash, self.ext)
    IN  IF IsErr(mac) THEN Err
        ELSE HeaderNew(Some(creds.id), Some(ts), Some(nonce), Some(Unwrap(mac)),
                       self.ext, self.hash, self.app, self.dlg)

\* Request::make_header: the nonce is random_string(10), the timestamp the clock's
MakeHeaderAt(self, creds, t, nonce) == MakeHeaderFull(self, creds, t, nonce)

\* Request::make_bewit
MakeBewitAt(self, creds, ttl, t) ==
    LET exp == TsAdd(t, ttl)
        mac == MacNew(BewitType, creds.key, exp, <<>>, self.method, self.host,
                      self.port, self.path, self.hash, self.ext)
    IN  IF IsErr(mac) THEN Err
        ELSE Ok(BewitNew(creds.id, exp, Unwrap(mac), self.ext))

\* a MAC check that signs the Request's hash and ext instead of the header's
HeaderMacCheckOwnFields(self, hdr, key) ==
    LET calculated == MacNew(HeaderType, key, Unwrap(hdr.ts), Unwrap(hdr.nonce),
                             self.method, self.host, self.port, self.path,
                             self.hash, self.ext)
    IN  IF IsErr(calculated) THEN "ne"
        ELSE MacEq(Unwrap(calculated), Unwrap(hdr.mac))

\* the MAC check of validate_header: "eq", "ne" or "panic"; a signing error
\* counts as "ne"
HeaderMacCheck(self, hdr, key) ==
    LET calculated == MacNew(HeaderType, key, Unwrap(hdr.ts), Unwrap(hdr.nonce),
                             self.method, self.host, self.port, self.path,
                             hdr.hash, hdr.ext)
    IN  IF IsErr(calculated) THEN "ne"
        ELSE MacEq(Unwrap(calculated), Unwrap(hdr.mac))

\* a hash check that lets a header without a hash through
HeaderHashOkLenient(self, hdr) ==
    IF IsSome(self.hash) /\ IsSome(hdr.hash)
    THEN Unwrap(self.hash) = Unwrap(hdr.hash)
    ELSE TRUE

\* the hash check of validate_header
HeaderHashOk(self, hdr) ==
    IF IsSome(self.hash)
    THEN (IF IsSome(hdr.hash) THEN Unwrap(self.hash) = Unwrap(hdr.hash) ELSE FALSE)
    ELSE TRUE

\* a timestamp check that only rejects a timestamp behind the clock
HeaderSkewOkLateOnly(ts, ts_skew, t) ==
    IF TsLess(ts, t) THEN ~(TsSub(t, ts) > ts_skew) ELSE TRUE

\* a timestamp check that wants the skew strictly below ts_skew
HeaderSkewOkStrict(ts, ts_skew, t) ==
    LET skew == IF TsLess(ts, t) THEN TsSub(t, ts) ELSE TsSub(ts, t)
    IN  skew < ts_skew

\* the timestamp check of validate_header
HeaderSkewOk(ts, ts_skew, t) ==
    LET skew == IF TsLess(ts, t) THEN TsSub(t, ts) ELSE TsSub(ts, t)
    IN  ~(skew > ts_skew)

\* a validate_header that takes an absent nonce for the empty one
ValidateHeaderAtNonceOptional(self, hdr, key, ts_skew, t) ==
    IF IsNone(hdr.ts) THEN "false"
    ELSE IF IsNone(hdr.mac) THEN "false"
    ELSE
      LET h == [hdr EXCEPT !.nonce = IF IsNone(hdr.nonce) THEN Some(<<>>) ELSE hdr.nonce]
          check == HeaderMacCheck(self, h, key)
      IN  IF check = "panic" THEN "panic"
          ELSE IF check = "ne" THEN "false"
          ELSE IF ~HeaderHashOk(self, h) THEN "false"
          ELSE IF ~HeaderSkewOk(Unwrap(h.ts), ts_skew, t) THEN "false"
          ELSE "true"

\* Request::validate_header: "true", "false", or "panic" when the call aborts
ValidateHeaderAt(self, hdr, key, ts_skew, t) ==
    IF IsNone(hdr.ts) THEN "false"
    ELSE IF IsNone(hdr.nonce) THEN "false"
    ELSE IF IsNone(hdr.mac) THEN "false"
    ELSE
      LET check == HeaderMacCheck(self, hdr, key)
      IN  IF check = "panic" THEN "panic"
          ELSE IF check = "ne" THEN "false"
          ELSE IF ~HeaderHashOk(self, hdr) THEN "false"
          ELSE IF ~HeaderSkewOk(Unwrap(hdr.ts), ts_skew, t) THEN "false"
          ELSE "true"

\* the MAC check of validate_bewit
BewitMacCheck(self, bwt, key) ==
    LET calculated == MacNew(BewitType, key, bwt.exp, <<>>, self.method, self.host,
                             self.port, self.path, self.hash, bwt.ext)
    IN  IF IsErr(calculated) THEN "ne"
        ELSE MacEq(bwt.mac, Unwrap(calculated))

\* an expiry check that already fails at the moment of expiry
BewitExpiredAtExp(exp, t) == ~TsLess(t, exp)

\* the expiry check of validate_bewit
BewitExpired(exp, t) == TsLess(exp, t)

\* a validate_bewit that accepts a bewit only once in a row
ValidateBewitAtSingleUse(self, bwt, key, t) ==
    IF result.op = "validate_bewit" /\ result.outcome = "true" THEN "false"
    ELSE
      LET check == BewitMacCheck(self, bwt, key)
      IN  IF check = "panic" THEN "panic"
          ELSE IF check = "ne" THEN "false"
          ELSE IF BewitExpired(bwt.exp, t) THEN "false"
          ELSE "true"

\* Request::validate_bewit
ValidateBewitAt(self, bwt, key, t) ==
    LET check == BewitMacCheck(self, bwt, key)
    IN  IF check = "panic" THEN "panic"
        ELSE IF check = "ne" THEN "false"
        ELSE IF BewitExpired(bwt.exp, t) THEN "false"
        ELSE "true"

----------------------------------------------------------------------------
(* The values the operations are called with.                              *)

GET == <<71, 69, 84>>
POST == <<80, 79, 83, 84>>
Methods == {GET, POST}
\* "a", "b"
Hosts == {<<97>>, <<98>>}
Ports == {80, 443}
\* "/", "/x"
Paths == {<<47>>, <<47, 120>>}
\* absent, empty, one byte
Hashes == {None, Some(<<>>), Some(<<7>>)}
\* "~": a character whose URL-safe base64 differs from the standard one
Tilde == <<126>>
\* absent, "", "e"
Exts == {None, Some(<<>>), Some(<<101>>)}
\* "n", ""
Nonces == {<<110>>, <<>>}
\* "me", "m\"e"
Ids == {<<109, 101>>, <<109, 34, 101>>}
Keys == {1, 2}
\* "app"
Apps == {None, Some(<<97, 112, 112>>)}

\* every clock reading
TsRange == {TsAdd(Timespec(0, 0), d) : d \in 0..MaxTicks}

\* ts_skew values, in clock units
Skews == {-1, 0, 1}

\* ttl values: negative, sub-second, a whole second
Ttls == {-1, 1, SubSec}

\* Mac bytes an attacker may put on the wire: empty, of the digest's length, longer
WireMacs == {<<>>, <<0, 0, 0, 0>>, <<1, 2, 3, 4, 5>>}

\* the Requests and Credentials an artifact is generated from: GET and POST,
\* with and without hash and ext, and an id that holds a double quote
Scenarios ==
    { <<Request(GET, <<97>>, 80, <<47>>, None, None, None, None),
        Credentials(<<109, 101>>, 1)>>,
      <<Request(GET, <<97>>, 80, <<47>>, Some(<<7>>), Some(Tilde), None, None),
        Credentials(<<109, 101>>, 1)>>,
      <<Request(POST, <<97>>, 80, <<47>>, None, Some(Tilde), None, None),
        Credentials(<<109, 101>>, 1)>>,
      <<Request(POST, <<97>>, 80, <<47>>, Some(<<7>>), None, Some(<<97, 112, 112>>), None),
        Credentials(<<109, 101>>, 1)>>,
      <<Request(GET, <<97>>, 80, <<47>>, None, None, None, None),
        Credentials(<<109, 34, 101>>, 1)>> }

\* what the last call returned, and the key and ts_skew it was given
NoResult == [op |-> "none", outcome |-> "none", key |-> 0, ts_skew |-> 0]

CallResult(op, outcome, key, ts_skew) ==
    [op |-> op, outcome |-> outcome, key |-> key, ts_skew |-> ts_skew]

\* a PayloadHasher and the calls made on it: the chunks it was fed and what
\* finish returned
NoHasher ==
    [made |-> FALSE, content_type |-> <<>>, digest |-> "none", self |-> None,
     chunks |-> <<>>, out |-> None, op |-> "none"]

\* the Mac instance at hand: its bytes, the key and parameters of the last
\* sign call, the text that call fed to the signer, the number of sign calls,
\* and the Mac it was last compared with
NoSigning ==
    [made |-> FALSE, mac |-> <<>>, key |-> 0, params |-> None, text |-> None,
     signs |-> 0, other |-> None]

\* what the artifact at hand was generated from, and the one change made to it
\* or to the Request since (tampered: <<>> or <<side, field>>)
NoOrigin ==
    [artifact |-> "none", request |-> None, header |-> None, bewit |-> None,
     ttl |-> 0, tampered |-> <<>>, roundtrip |-> FALSE, ts |-> None, nonce |-> None,
     args |-> None]

----------------------------------------------------------------------------
(* The state machine: a sender generates a header or a bewit from `request` *)
(* and `credentials`; one field of the artifact or of the Request may be    *)
(* changed; the receiver validates at the clock's reading.                  *)

Init ==
    /\ now = Timespec(0, 0)
    /\ \E sc \in Scenarios : request = sc[1] /\ credentials = sc[2]
    /\ header = None
    /\ bewit = None
    /\ wire = None
    /\ origin = NoOrigin
    /\ result = NoResult
    /\ expiredSeen = FALSE
    /\ signing = NoSigning
    /\ hasher = NoHasher

\* the clock advances by one unit
Tick ==
    /\ TsAdd(now, 1) \in TsRange
    /\ now' = TsAdd(now, 1)
    /\ result' = NoResult
    /\ UNCHANGED <<hasher, signing, request, credentials, header, bewit, wire, origin, expiredSeen>>

\* the outcome of a make_header / make_header_full call that returned r
HeaderMade(r, op, ts, nonce) ==
    /\ origin.artifact = "none"
    /\ IF IsOk(r)
       THEN /\ header' = Some(Unwrap(r))
            /\ origin' = [NoOrigin EXCEPT !.artifact = "header", !.request = Some(request),
                                          !.header = Some(Unwrap(r)),
                                          !.ts = Some(ts), !.nonce = Some(nonce)]
            /\ result' = CallResult(op, "ok", credentials.key, 0)
       ELSE /\ header' = None
            /\ origin' = NoOrigin
            /\ result' = CallResult(op, "err", credentials.key, 0)
    /\ UNCHANGED <<hasher, signing, now, request, credentials, bewit, wire, expiredSeen>>

\* request.make_header(&credentials)
MakeHeader ==
    \E nonce \in {<<110>>, <<109>>} :
        HeaderMade(MakeHeaderAt(request, credentials, now, nonce), "make_header", now, nonce)

\* request.make_header_full(&credentials, ts, nonce)
MakeHeaderFullCall ==
    \E ts \in TsRange, nonce \in Nonces :
        HeaderMade(MakeHeaderFull(request, credentials, ts, nonce), "make_header_full",
                   ts, nonce)

\* the Request the receiver validates against differs from the sender's in one field
TamperRequest ==
    /\ origin.artifact # "none"
    /\ origin.tampered = <<>>
    /\ IsNone(wire)
    /\ \E f \in {"method", "host", "port", "path", "hash", "ext"} :
         \E v \in (CASE f = "method" -> Methods
                     [] f = "host" -> Hosts
                     [] f = "port" -> Ports
                     [] f = "path" -> Paths
                     [] f = "hash" -> Hashes
                     [] f = "ext" -> Exts) :
            /\ v # request[f]
            /\ request' = [request EXCEPT ![f] = v]
            /\ origin' = [origin EXCEPT !.tampered = <<"request", f>>]
    /\ result' = NoResult
    /\ UNCHANGED <<hasher, signing, now, credentials, header, bewit, wire, expiredSeen>>

\* the header that reaches the receiver differs from the generated one in one field
TamperHeader ==
    /\ origin.artifact = "header"
    /\ origin.tampered = <<>>
    /\ \E f \in {"id", "ts", "nonce", "mac", "ext", "hash", "app", "dlg"} :
         \E v \in (CASE f = "id" -> {None} \cup {Some(i) : i \in Ids \ {<<109, 34, 101>>}}
                     [] f = "ts" -> {None} \cup {Some(t) : t \in TsRange}
                     [] f = "nonce" -> {None} \cup {Some(n) : n \in Nonces}
                     [] f = "mac" -> {None} \cup {Some(m) : m \in WireMacs}
                     [] f = "ext" -> Exts
                     [] f = "hash" -> Hashes
                     [] f = "app" -> Apps
                     [] f = "dlg" -> Apps) :
            /\ v # Unwrap(header)[f]
            /\ header' = Some([Unwrap(header) EXCEPT ![f] = v])
            /\ origin' = [origin EXCEPT !.tampered = <<"header", f>>]
    /\ result' = NoResult
    /\ UNCHANGED <<hasher, signing, now, request, credentials, bewit, wire, expiredSeen>>

\* request.validate_header(&header, &key, ts_skew)
ValidateHeader ==
    /\ IsSome(header)
    /\ \E key \in Keys, ts_skew \in Skews :
         result' = CallResult("validate_header",
                              ValidateHeaderAt(request, Unwrap(header), key, ts_skew, now),
                              key, ts_skew)
    /\ UNCHANGED <<hasher, signing, now, request, credentials, header, bewit, wire, origin, expiredSeen>>

Next ==
    \/ Tick
    \/ MakeHeader
    \/ MakeHeaderFullCall
    \/ TamperRequest
    \/ TamperHeader
    \/ ValidateHeader

Spec == Init /\ [][Next]_vars

----------------------------------------------------------------------------
(* The bewit's life: generated, possibly sent as text and parsed back,     *)
(* possibly changed in one field, validated.                               *)

\* request.make_bewit(&credentials, ttl)
MakeBewit ==
    /\ origin.artifact = "none"
    /\ \E ttl \in Ttls :
         LET r == MakeBewitAt(request, credentials, ttl, now)
         IN  /\ IsOk(r)
             /\ bewit' = Some(Unwrap(r))
             /\ origin' = [NoOrigin EXCEPT !.artifact = "bewit", !.request = Some(request),
                                           !.bewit = Some(Unwrap(r)), !.ttl = ttl]
    /\ result' = CallResult("make_bewit", "ok", credentials.key, 0)
    /\ expiredSeen' = FALSE
    /\ UNCHANGED <<hasher, signing, now, request, credentials, header, wire>>

\* the bewit handed to the receiver is Bewit::new with one field changed
TamperBewit ==
    /\ origin.artifact = "bewit"
    /\ origin.tampered = <<>>
    /\ IsSome(bewit)
    /\ IsNone(wire)
    /\ \E f \in {"id", "exp", "mac", "ext"} :
         \E v \in (CASE f = "id" -> {<<121, 111, 117>>}
                     [] f = "exp" -> TsRange
                     [] f = "mac" -> WireMacs
                     [] f = "ext" -> Exts) :
            /\ v # Unwrap(bewit)[f]
            /\ bewit' = Some([Unwrap(bewit) EXCEPT ![f] = v])
            /\ origin' = [origin EXCEPT !.tampered = <<"bewit", f>>]
    /\ result' = NoResult
    /\ UNCHANGED <<hasher, signing, now, request, credentials, header, wire, expiredSeen>>

\* bewit.to_str(): the text that travels in the URL
SendBewit ==
    /\ origin.artifact = "bewit"
    /\ origin.tampered = <<>>
    /\ ~origin.roundtrip
    /\ IsSome(bewit)
    /\ IsNone(wire)
    /\ wire' = Some(BewitToStr(Unwrap(bewit)))
    /\ result' = CallResult("to_str", "ok", 0, 0)
    /\ UNCHANGED <<hasher, signing, now, request, credentials, header, bewit, origin, expiredSeen>>

\* Bewit::from_str(&text): the receiver's bewit, when the text parses
ReceiveBewit ==
    /\ origin.artifact = "bewit"
    /\ IsSome(wire)
    /\ LET r == BewitFromStr(Unwrap(wire))
       IN  /\ bewit' = (IF IsOk(r) THEN Some(Unwrap(r)) ELSE None)
           /\ result' = CallResult("from_str", IF IsOk(r) THEN "ok" ELSE "err", 0, 0)
    /\ wire' = None
    /\ origin' = [origin EXCEPT !.roundtrip = TRUE]
    /\ UNCHANGED <<hasher, signing, now, request, credentials, header, expiredSeen>>

\* request.validate_bewit(&bewit, &key)
ValidateBewit ==
    /\ IsSome(bewit)
    /\ \E key \in Keys :
         LET outcome == ValidateBewitAt(request, Unwrap(bewit), key, now)
         IN  /\ result' = CallResult("validate_bewit", outcome, key, 0)
             /\ expiredSeen' =
                    (\/ expiredSeen
                     \/ /\ outcome = "false"
                        /\ key = credentials.key
                        /\ origin.tampered = <<>>
                        /\ ~origin.roundtrip)
    /\ UNCHANGED <<hasher, signing, now, request, credentials, header, bewit, wire, origin>>

NextBewit ==
    \/ Tick
    \/ MakeBewit
    \/ TamperRequest
    \/ TamperBewit
    \/ SendBewit
    \/ ReceiveBewit
    \/ ValidateBewit

SpecBewit == Init /\ [][NextBewit]_vars

\* headers and bewits together
NextAll == Next \/ NextBewit

SpecAll == Init /\ [][NextAll]_vars

\* the receiver is handed, as a header, what a bewit holds: its id, its exp as
\* ts, the empty nonce, its mac and ext, and the Request's hash
BewitAsHeader ==
    /\ origin.artifact = "bewit"
    /\ origin.tampered = <<>>
    /\ ~origin.roundtrip
    /\ IsSome(bewit)
    /\ IsNone(wire)
    /\ LET b == Unwrap(bewit)
       IN  header' = Some(Header(Some(b.id), Some(b.exp), Some(<<>>), Some(b.mac), b.ext,
                                 request.hash, None, None))
    /\ bewit' = None
    /\ origin' = [origin EXCEPT !.tampered = <<"bewit", "as header">>]
    /\ result' = NoResult
    /\ UNCHANGED <<hasher, signing, now, request, credentials, wire, expiredSeen>>

\* the receiver is handed, as a bewit, what a header with the empty nonce
\* holds: its id, its ts as exp, its mac and ext
HeaderAsBewit ==
    /\ origin.artifact = "header"
    /\ origin.tampered = <<>>
    /\ IsSome(header)
    /\ Unwrap(header).nonce = Some(<<>>)
    /\ LET h == Unwrap(header)
       IN  bewit' = Some(BewitNew(Unwrap(h.id), Unwrap(h.ts), Unwrap(h.mac), h.ext))
    /\ header' = None
    /\ origin' = [origin EXCEPT !.tampered = <<"header", "as bewit">>]
    /\ result' = NoResult
    /\ UNCHANGED <<hasher, signing, now, request, credentials, wire, expiredSeen>>

\* headers and bewits, each handed to the other's validation
NextCross ==
    \/ Tick
    \/ MakeHeaderFullCall
    \/ MakeBewit
    \/ BewitAsHeader
    \/ HeaderAsBewit
    \/ ValidateHeader
    \/ ValidateBewit

SpecCross == Init /\ [][NextCross]_vars

----------------------------------------------------------------------------
(* The codecs on their own: a Header or Bewit built by its constructor,    *)
(* formatted, and parsed back.                                             *)

\* "k=v, w": separators inside a quoted value
Tricky == <<107, 61, 118, 44, 32, 119>>
\* "a\b"
Slashed == <<97, 92, 98>>
CodecStrs == {None, Some(<<>>), Some(Tricky)}
CodecMacs == {None, Some(<<>>), Some(<<0, 255, 16, 3>>)}
\* the clock's readings, and a time before the epoch
CodecTimes == TsRange \cup {Timespec(-1, 0)}

InitCodec ==
    /\ Init
    /\ request = Request(GET, <<97>>, 80, <<47>>, None, None, None, None)
    /\ credentials = Credentials(<<109, 101>>, 1)

\* absent, "a", and a value that holds a double quote: "m\"e"
QuotedStrs == {None, Some(<<97>>), Some(<<109, 34, 101>>)}

\* the arguments of Header::new: every combination of the codec's values, and
\* every combination of quoted and unquoted strings
HeaderArgs ==
    [id : CodecStrs, ts : {None} \cup {Some(t) : t \in CodecTimes}, nonce : CodecStrs,
     mac : CodecMacs, ext : CodecStrs, hash : Hashes, app : Apps, dlg : Apps]
    \cup
    [id : QuotedStrs, ts : {Some(Timespec(0, 0))}, nonce : QuotedStrs, mac : {None},
     ext : QuotedStrs, hash : {None}, app : QuotedStrs, dlg : QuotedStrs]

\* Header::new(id, ts, nonce, mac, ext, hash, app, dlg), called once
NewHeader ==
    /\ origin.artifact = "none"
    /\ IsNone(origin.args)
    /\ \E a \in HeaderArgs :
         LET r == HeaderNew(a.id, a.ts, a.nonce, a.mac, a.ext, a.hash, a.app, a.dlg)
         IN  IF IsOk(r)
             THEN /\ header' = Some(Unwrap(r))
                  /\ origin' = [NoOrigin EXCEPT !.artifact = "header",
                                                !.header = Some(Unwrap(r)),
                                                !.args = Some(a)]
                  /\ result' = CallResult("new", "ok", 0, 0)
             ELSE /\ header' = None
                  /\ origin' = [NoOrigin EXCEPT !.args = Some(a)]
                  /\ result' = CallResult("new", "err", 0, 0)
    /\ UNCHANGED <<hasher, signing, now, request, credentials, bewit, wire, expiredSeen>>

\* request.make_header_full(&credentials, ts, nonce) where the id, the nonce,
\* the ext or the app may hold a double quote
MakeHeaderFullQuoted ==
    /\ origin.artifact = "none"
    /\ IsNone(origin.args)
    /\ \E id \in Ids, nonce \in Nonces \cup {<<QUOTE>>},
          ext \in {None, Some(<<QUOTE>>)}, app \in {None, Some(<<QUOTE>>)} :
         LET self == [request EXCEPT !.ext = ext, !.app = app]
             r == MakeHeaderFull(self, Credentials(id, credentials.key), now, nonce)
         IN  IF IsOk(r)
             THEN /\ header' = Some(Unwrap(r))
                  /\ origin' = [NoOrigin EXCEPT !.artifact = "header",
                                                !.request = Some(self),
                                                !.header = Some(Unwrap(r)),
                                                !.ts = Some(now), !.nonce = Some(nonce)]
                  /\ result' = CallResult("make_header_full", "ok", credentials.key, 0)
             ELSE /\ header' = None
                  /\ origin' = NoOrigin
                  /\ result' = CallResult("make_header_full", "err", credentials.key, 0)
    /\ UNCHANGED <<hasher, signing, now, request, credentials, bewit, wire, expiredSeen>>

\* texts that did not come from a Header:
\*   id="m\"e"     id="m", ext=""e"=""     "="", id="a"     id="a" ext="e
HeaderTexts ==
    { <<105, 100, 61, 34, 109, 92, 34, 101, 34>>,
      <<105, 100, 61, 34, 109, 34, 44, 32, 101, 120, 116, 61, 34, 34, 101, 34, 61, 34, 34>>,
      <<34, 61, 34, 34, 44, 32, 105, 100, 61, 34, 97, 34>>,
      <<105, 100, 61, 34, 97, 34, 32, 101, 120, 116, 61, 34, 101>>,
      <<105, 100, 61, 34, 97, 34, 32, 101, 120, 116, 61, 34, 101, 34>> }

\* name, blanks, '=', blanks, and the value between double quotes
FieldText(name, pre, post, value) ==
    name \o pre \o <<EQUALS>> \o post \o <<QUOTE>> \o value \o <<QUOTE>>

\* a well-formed field of a header text, with the Header field it stands for
GoodField(field, name, pre, post, value, parsed) ==
    [field |-> field, text |-> FieldText(name, pre, post, value), class |-> "ok",
     sets |-> [EmptyHeader EXCEPT ![field] = Some(parsed)]]

\* a malformed field of a header text, with the way it is malformed
BadField(text, class) ==
    [field |-> "none", text |-> text, class |-> class, sets |-> EmptyHeader]

\* id="a"  id="b"  id=""  id = "a"  ts="12"  ts="-1"  ts\t="+3"  nonce="n"
\* mac="AP8QAw=="  ext="k=v, w"  hash="Bw=="  app="p"  dlg="d"
GoodFields ==
    { GoodField("id", NameId, <<>>, <<>>, <<97>>, <<97>>),
      GoodField("id", NameId, <<>>, <<>>, <<98>>, <<98>>),
      GoodField("id", NameId, <<>>, <<>>, <<>>, <<>>),
      GoodField("id", NameId, <<SPACE>>, <<SPACE>>, <<97>>, <<97>>),
      GoodField("ts", NameTs, <<>>, <<>>, <<49, 50>>, Timespec(12, 0)),
      GoodField("ts", NameTs, <<>>, <<>>, <<45, 49>>, Timespec(-1, 0)),
      GoodField("ts", NameTs, <<9>>, <<>>, <<43, 51>>, Timespec(3, 0)),
      GoodField("nonce", NameNonce, <<>>, <<>>, <<110>>, <<110>>),
      GoodField("mac", NameMac, <<>>, <<>>, <<65, 80, 56, 81, 65, 119, 61, 61>>,
                <<0, 255, 16, 3>>),
      GoodField("ext", NameExt, <<>>, <<>>, Tricky, Tricky),
      GoodField("hash", NameHash, <<>>, <<>>, <<66, 119, 61, 61>>, <<7>>),
      GoodField("app", NameApp, <<>>, <<>>, <<112>>, <<112>>),
      GoodField("dlg", NameDlg, <<>>, <<>>, <<100>>, <<100>>) }

\* xx="a"  ID="a"  ts="1x"  ts=""  ts="1.5"  ts="9223372036854775808"
\* mac="A"  mac="*"  hash="A"  id"a"  id=a"  id="a
BadFields ==
    { BadField(FieldText(<<120, 120>>, <<>>, <<>>, <<97>>), "name"),
      BadField(FieldText(<<73, 68>>, <<>>, <<>>, <<97>>), "name"),
      BadField(FieldText(NameTs, <<>>, <<>>, <<49, 120>>), "ts"),
      BadField(FieldText(NameTs, <<>>, <<>>, <<>>), "ts"),
      BadField(FieldText(NameTs, <<>>, <<>>, <<49, 46, 53>>), "ts"),
      BadField(FieldText(NameTs, <<>>, <<>>, Upto(I64MaxDigits, 18) \o <<56>>), "ts"),
      BadField(FieldText(NameMac, <<>>, <<>>, <<65>>), "base64"),
      BadField(FieldText(NameMac, <<>>, <<>>, <<42>>), "base64"),
      BadField(FieldText(NameHash, <<>>, <<>>, <<65>>), "base64"),
      BadField(NameId \o <<QUOTE, 97, QUOTE>>, "no equals"),
      BadField(NameId \o <<EQUALS, 97, QUOTE>>, "no opening quote"),
      BadField(NameId \o <<EQUALS, QUOTE, 97>>, "no closing quote") }

\* what may follow the last field, with what it is
Tails ==
    { [text |-> <<>>, class |-> "none"],
      [text |-> <<SPACE>>, class |-> "blank"],
      [text |-> <<SPACE, 9>>, class |-> "blank"],
      [text |-> <<COMMA>>, class |-> "comma"],
      [text |-> <<SPACE, COMMA, SPACE>>, class |-> "comma"],
      [text |-> <<120>>, class |-> "garbage"] }

\* the texts Header::from_str is given, each with the fields it was put
\* together from: no field; one field; two fields of which at most one is
\* malformed
HeaderCases ==
    LET \* what may stand in front of the first field:  nothing  ", "  " \t,"
        Leads == {<<>>, <<COMMA, SPACE>>, <<SPACE, 9, COMMA>>}
        \* what may stand between two fields:  ", "  ","  " "  " ,\t, "  nothing
        Seps == {<<COMMA, SPACE>>, <<COMMA>>, <<SPACE>>, <<SPACE, COMMA, 9, COMMA, SPACE>>, <<>>}
        \* texts without a field:  ""  " "  ","  ", "  "\t , "
        SeparatorTexts == {<<>>, <<SPACE>>, <<COMMA>>, <<COMMA, SPACE>>, <<9, SPACE, COMMA, SPACE>>}
    IN
    { [text |-> t, fields |-> <<>>, tail |-> IF t = <<>> THEN "none" ELSE "separators"] :
        t \in SeparatorTexts }
    \cup
    { [text |-> l \o f.text \o t.text, fields |-> <<f>>, tail |-> t.class] :
        l \in Leads, f \in GoodFields \cup BadFields, t \in Tails }
    \cup
    { [text |-> p[1].text \o s \o p[2].text \o t.text, fields |-> p, tail |-> t.class] :
        p \in (GoodFields \X (GoodFields \cup BadFields)) \cup (BadFields \X GoodFields),
        s \in Seps,
        t \in {t \in Tails : t.text \in {<<>>, <<SPACE, 9>>}} }

\* Header::from_str(&text) on a text that did not come from a Header
ParseHeaderText ==
    /\ origin.artifact = "none"
    /\ IsNone(origin.args)
    /\ \E c \in HeaderCases \cup
                 {[text |-> t, fields |-> <<>>, tail |-> "hostile"] : t \in HeaderTexts} :
         LET r == HeaderFromStr(c.text)
         IN  /\ header' = (IF IsOk(r) THEN Some(Unwrap(r)) ELSE None)
             /\ result' = CallResult("from_str", IF IsOk(r) THEN "ok" ELSE "err", 0, 0)
             /\ origin' = [NoOrigin EXCEPT !.artifact = "text", !.args = Some(c)]
    /\ UNCHANGED <<hasher, signing, now, request, credentials, bewit, wire, expiredSeen>>

\* header.to_string(): impl Display for Header
SendHeader ==
    /\ origin.artifact = "header"
    /\ ~origin.roundtrip
    /\ IsSome(header)
    /\ IsNone(wire)
    /\ wire' = Some(FmtHeader(Unwrap(header)))
    /\ result' = CallResult("to_string", "ok", 0, 0)
    /\ UNCHANGED <<hasher, signing, now, request, credentials, header, bewit, origin, expiredSeen>>

\* Header::from_str(&text): the receiver's header, when the text parses
ReceiveHeader ==
    /\ origin.artifact = "header"
    /\ IsSome(wire)
    /\ LET r == HeaderFromStr(Unwrap(wire))
       IN  /\ header' = (IF IsOk(r) THEN Some(Unwrap(r)) ELSE None)
           /\ result' = CallResult("from_str", IF IsOk(r) THEN "ok" ELSE "err", 0, 0)
    /\ wire' = None
    /\ origin' = [origin EXCEPT !.roundtrip = TRUE]
    /\ UNCHANGED <<hasher, signing, now, request, credentials, bewit, expiredSeen>>

NextHeaderCodec ==
    \/ NewHeader
    \/ MakeHeaderFullQuoted
    \/ ParseHeaderText
    \/ SendHeader
    \/ ReceiveHeader

SpecHeaderCodec == InitCodec /\ [][NextHeaderCodec]_vars

\* Bewit::new(id, exp, mac, ext)
NewBewit ==
    /\ origin.artifact = "none"
    /\ \E id \in {<<109, 101>>, <<>>, Slashed}, exp \in CodecTimes, mac \in WireMacs,
          ext \in Exts \cup {Some(Tilde), Some(Slashed)} :
         LET b == BewitNew(id, exp, mac, ext)
         IN  /\ bewit' = Some(b)
             /\ origin' = [NoOrigin EXCEPT !.artifact = "bewit", !.bewit = Some(b)]
    /\ result' = CallResult("new", "ok", 0, 0)
    /\ UNCHANGED <<hasher, signing, now, request, credentials, header, wire, expiredSeen>>

\* the texts Bewit::from_str is given: the standard base64 of three, four or
\* five parts joined by backslashes, with the Bewit the four good parts stand for
\* (the parts of the raw text come with whether from_str can use them, and as what)
BewitCases ==
    LET \* "me", "", and a byte that is not UTF-8
        IdParts ==
            { [bytes |-> <<109, 101>>, good |-> TRUE], [bytes |-> <<>>, good |-> TRUE],
              [bytes |-> <<255>>, good |-> FALSE] }
        \* "12", "-1", "", "1x", "9223372036854775808", and a byte that is not UTF-8
        ExpParts ==
            { [bytes |-> <<49, 50>>, good |-> TRUE, value |-> 12],
              [bytes |-> <<45, 49>>, good |-> TRUE, value |-> -1],
              [bytes |-> <<>>, good |-> FALSE, value |-> 0],
              [bytes |-> <<49, 120>>, good |-> FALSE, value |-> 0],
              [bytes |-> Upto(I64MaxDigits, 18) \o <<56>>, good |-> FALSE, value |-> 0],
              [bytes |-> <<255>>, good |-> FALSE, value |-> 0] }
        \* "AP8QAw==", "", "*", and a byte that is not UTF-8
        MacParts ==
            { [bytes |-> <<65, 80, 56, 81, 65, 119, 61, 61>>, good |-> TRUE,
               value |-> <<0, 255, 16, 3>>],
              [bytes |-> <<>>, good |-> TRUE, value |-> <<>>],
              [bytes |-> <<42>>, good |-> FALSE, value |-> <<>>],
              [bytes |-> <<255>>, good |-> FALSE, value |-> <<>>] }
        \* "", "e", and a byte that is not UTF-8
        ExtParts ==
            { [bytes |-> <<>>, good |-> TRUE], [bytes |-> <<101>>, good |-> TRUE],
              [bytes |-> <<255>>, good |-> FALSE] }
        \* what may follow the fourth part: nothing, a backslash, a backslash and "x"
        MoreParts ==
            { [bytes |-> <<>>, count |-> 0], [bytes |-> <<BACKSLASH>>, count |-> 1],
              [bytes |-> <<BACKSLASH, 120>>, count |-> 1] }
    IN
    { [text |-> B64Encode(i.bytes \o <<BACKSLASH>> \o e.bytes \o <<BACKSLASH>> \o m.bytes
                          \o <<BACKSLASH>> \o x.bytes \o more.bytes),
       count |-> 4 + more.count,
       good |-> i.good /\ e.good /\ m.good /\ x.good,
       ext |-> x.bytes,
       bewit |-> BewitNew(i.bytes, Timespec(e.value, 0), m.value,
                          IF x.bytes = <<>> THEN None ELSE Some(x.bytes))] :
        i \in IdParts, e \in ExpParts, m \in MacParts, x \in ExtParts, more \in MoreParts }
    \cup
    { [text |-> B64Encode(i.bytes \o <<BACKSLASH>> \o e.bytes \o <<BACKSLASH>> \o m.bytes),
       count |-> 3,
       good |-> i.good /\ e.good /\ m.good,
       ext |-> <<>>,
       bewit |-> BewitNew(i.bytes, Timespec(e.value, 0), m.value, None)] :
        i \in IdParts, e \in ExpParts, m \in MacParts }

\* Bewit::from_str(&text) on a text that did not come from a Bewit
ParseBewitText ==
    /\ origin.artifact = "none"
    /\ \E c \in BewitCases :
         LET r == BewitFromStr(c.text)
         IN  /\ bewit' = (IF IsOk(r) THEN Some(Unwrap(r)) ELSE None)
             /\ result' = CallResult("from_str", IF IsOk(r) THEN "ok" ELSE "err", 0, 0)
             /\ origin' = [NoOrigin EXCEPT !.artifact = "text", !.args = Some(c)]
    /\ UNCHANGED <<hasher, signing, now, request, credentials, header, wire, expiredSeen>>

NextBewitCodec ==
    \/ ParseBewitText
    \/ NewBewit
    \/ SendBewit
    \/ ReceiveBewit

SpecBewitCodec == InitCodec /\ [][NextBewitCodec]_vars

----------------------------------------------------------------------------
(* The Mac on its own: built from bytes or default, signed, signed again,  *)
(* compared.                                                               *)

\* a Mac is signed at most MaxSigns times
MaxSigns == 2

\* "n", "", and a nonce that holds a newline: "n\nn"
MacNonces == {<<110>>, <<>>, <<110, 10, 110>>}
\* "GET", and a method that holds a newline: "n\nGET"
MacMethods == {GET, <<110, 10>> \o GET}

MacParamsBase ==
    MacParams(HeaderType, Timespec(0, 0), <<110>>, GET, <<97>>, 80, <<47>>, None, None)

MacParamsFields ==
    {"mac_type", "ts", "nonce", "method", "host", "port", "path", "hash", "ext"}

\* the parameter records that differ from MacParamsBase in at most two fields
MacParamsDomain ==
    {p \in [mac_type : {HeaderType, ResponseType, BewitType}, ts : TsRange,
            nonce : MacNonces, method : MacMethods, host : Hosts, port : Ports,
            path : Paths, hash : Hashes, ext : Exts] :
        Cardinality({f \in MacParamsFields : p[f] # MacParamsBase[f]}) <= 2}

\* Mac::default() / Mac::from(bytes)
NewMac ==
    /\ ~signing.made
    /\ origin.artifact = "none"
    /\ \E bytes \in WireMacs :
         signing' = [NoSigning EXCEPT !.made = TRUE, !.mac = bytes]
    /\ result' = CallResult("from", "ok", 0, 0)
    /\ UNCHANGED <<hasher, now, request, credentials, header, bewit, wire, origin, expiredSeen>>

\* mac.sign(&key, mac_params)
SignMac ==
    /\ signing.made
    /\ signing.signs < MaxSigns
    /\ IsNone(signing.other)
    /\ \E key \in Keys, p \in MacParamsDomain :
         signing' = [signing EXCEPT !.mac = MacSign(signing.mac, key, p),
                                    !.key = key,
                                    !.params = Some(p),
                                    !.text = Some(MacParamsDisplay(p)),
                                    !.signs = signing.signs + 1,
                                    !.other = None]
    /\ result' = CallResult("sign", "ok", 0, 0)
    /\ UNCHANGED <<hasher, now, request, credentials, header, bewit, wire, origin, expiredSeen>>

\* mac == other, for a Mac received from the wire or one freshly signed
CompareMac ==
    /\ signing.made
    /\ \E m \in WireMacs \cup {Unwrap(MacNewSigned(1, MacParamsBase))} :
         /\ signing' = [signing EXCEPT !.other = Some(m)]
         /\ result' = CallResult("eq", MacEq(signing.mac, m), 0, 0)
    /\ UNCHANGED <<hasher, now, request, credentials, header, bewit, wire, origin, expiredSeen>>

NextMac ==
    \/ NewMac
    \/ SignMac
    \/ CompareMac

SpecMac == InitCodec /\ [][NextMac]_vars

----------------------------------------------------------------------------
(* The PayloadHasher on its own: made, fed chunk by chunk and finished, or *)
(* used through the one-shot hash.                                         *)

\* a PayloadHasher is fed at most MaxChunks chunks
MaxChunks == 3

\* "t", ""
ContentTypes == {<<116>>, <<>>}
Digests == {"sha1", "sha256"}
\* "", "p", the two bytes of a-grave, a newline
Chunks == {<<>>, <<112>>, <<195, 160>>, <<NEWLINE>>}

\* the chunks one after the other
Concat(chunks) ==
    LET f[i \in 0..Len(chunks)] == IF i = 0 THEN <<>> ELSE f[i - 1] \o chunks[i]
    IN  f[Len(chunks)]

\* the bodies that up to MaxChunks chunks make
Bodies == {Concat(cs) : cs \in UNION {[1..n -> Chunks] : n \in 0..MaxChunks}}

\* PayloadHasher::new(content_type, digest)
NewHasher ==
    /\ ~hasher.made
    /\ \E content_type \in ContentTypes, digest \in Digests :
         hasher' = [NoHasher EXCEPT !.made = TRUE, !.content_type = content_type,
                                    !.digest = digest,
                                    !.self = Some(PayloadHasherNew(content_type, digest)),
                                    !.op = "new"]
    /\ UNCHANGED <<signing, now, request, credentials, header, bewit, wire, origin, result,
                   expiredSeen>>

\* hasher.update(data)
UpdateHasher ==
    /\ hasher.made
    /\ IsSome(hasher.self)
    /\ Len(hasher.chunks) < MaxChunks
    /\ \E data \in Chunks :
         hasher' = [hasher EXCEPT !.self = Some(PayloadHasherUpdate(Unwrap(hasher.self), data)),
                                  !.chunks = Append(hasher.chunks, data),
                                  !.op = "update"]
    /\ UNCHANGED <<signing, now, request, credentials, header, bewit, wire, origin, result,
                   expiredSeen>>

\* hasher.finish(), which takes the hasher
FinishHasher ==
    /\ hasher.made
    /\ IsSome(hasher.self)
    /\ hasher' = [hasher EXCEPT !.self = None,
                                !.out = Some(PayloadHasherFinish(Unwrap(hasher.self))),
                                !.op = "finish"]
    /\ UNCHANGED <<signing, now, request, credentials, header, bewit, wire, origin, result,
                   expiredSeen>>

\* PayloadHasher::hash(content_type, digest, payload)
HashPayload ==
    /\ ~hasher.made
    /\ \E content_type \in ContentTypes, digest \in Digests, payload \in Bodies :
         hasher' = [NoHasher EXCEPT !.made = TRUE, !.content_type = content_type,
                                    !.digest = digest,
                                    !.chunks = <<payload>>,
                                    !.out = Some(PayloadHasherHash(content_type, digest,
                                                                   payload)),
                                    !.op = "hash"]
    /\ UNCHANGED <<signing, now, request, credentials, header, bewit, wire, origin, result,
                   expiredSeen>>

NextPayload ==
    \/ NewHasher
    \/ UpdateHasher
    \/ FinishHasher
    \/ HashPayload

SpecPayload == InitCodec /\ [][NextPayload]_vars

----------------------------------------------------------------------------
(* Properties of validate_header (Spec).                                   *)

\* C1: a header that make_header / make_header_full generated for the clock's
\* reading is accepted by validate_header on the same Request with the
\* credentials' key, at that clock reading, for every ts_skew >= 0.
C1_GeneratedHeaderValidates ==
    (/\ result.op = "validate_header"
     /\ origin.artifact = "header"
     /\ origin.tampered = <<>>
     /\ result.key = credentials.key
     /\ result.ts_skew >= 0
     /\ Unwrap(header).ts = Some(now))
    => result.outcome = "true"

\* a fresh header validated with ts_skew = 0 and found good
C1_Witness ==
    /\ result.op = "validate_header"
    /\ origin.artifact = "header"
    /\ origin.tampered = <<>>
    /\ result.key = credentials.key
    /\ result.ts_skew = 0
    /\ Unwrap(header).ts = Some(now)
    /\ result.outcome = "true"

\* C2: validate_header and validate_bewit always return a boolean; they never
\* abort, whatever the header or bewit holds.
C2_ValidateNeverAborts ==
    result.op \in {"validate_header", "validate_bewit"}
    => result.outcome \in {"true", "false"}

\* C8: validate_header returns false when the header's ts, nonce or mac is
\* absent, whatever the other fields, the key, the clock and ts_skew are.
C8_MissingFieldRejected ==
    (/\ result.op = "validate_header"
     /\ \/ IsNone(Unwrap(header).ts)
        \/ IsNone(Unwrap(header).nonce)
        \/ IsNone(Unwrap(header).mac))
    => result.outcome = "false"

\* a generated header that lost only its nonce, validated with the right key
\* and a ts_skew that covers the clock
C8_Witness ==
    /\ result.op = "validate_header"
    /\ origin.tampered = <<"header", "nonce">>
    /\ IsNone(Unwrap(header).nonce)
    /\ Unwrap(Unwrap(origin.header).nonce) = <<>>
    /\ result.key = credentials.key
    /\ Unwrap(header).ts = Some(now)
    /\ result.ts_skew = 1
    /\ result.outcome = "false"

\* C9: the MAC check of validate_header signs the header's hash and ext, not
\* the Request's: when the validating Request differs from the sender's only in
\* its ext or its hash, a header the sender's Request accepts is still accepted,
\* provided the Request's expected hash (if any) is the header's.
C9_MacUsesHeaderHashAndExt ==
    (/\ result.op = "validate_header"
     /\ origin.tampered \in {<<"request", "ext">>, <<"request", "hash">>}
     /\ ValidateHeaderAt(Unwrap(origin.request), Unwrap(header), result.key,
                         result.ts_skew, now) = "true"
     /\ (IsNone(request.hash) \/ request.hash = Unwrap(header).hash))
    => result.outcome = "true"

\* the validating Request carries another ext than the header, and accepts it
C9_Witness ==
    /\ result.op = "validate_header"
    /\ origin.tampered = <<"request", "ext">>
    /\ IsSome(request.ext)
    /\ request.ext # Unwrap(header).ext
    /\ result.outcome = "true"

\* C10: when the validating Request declares a hash, validate_header accepts
\* only a header that carries that very hash.
C10_ExpectedHashEnforced ==
    (/\ result.op = "validate_header"
     /\ IsSome(request.hash)
     /\ result.outcome = "true")
    => Unwrap(header).hash = request.hash

\* the header's MAC is right and its timestamp within ts_skew, yet the Request
\* expects a hash the header does not carry, and the header is rejected
C10_Witness ==
    /\ result.op = "validate_header"
    /\ origin.tampered = <<"request", "hash">>
    /\ IsSome(request.hash)
    /\ Unwrap(header).hash # request.hash
    /\ HeaderMacCheck(request, Unwrap(header), result.key) = "eq"
    /\ HeaderSkewOk(Unwrap(Unwrap(header).ts), result.ts_skew, now)
    /\ result.outcome = "false"

----------------------------------------------------------------------------
(* Properties of validate_bewit (SpecBewit).                               *)

C7_RoundTrippedBewitValidates ==
    /\ (origin.artifact = "bewit" /\ origin.roundtrip /\ origin.tampered = <<>>)
       => IsSome(bewit)
    /\ (/\ result.op = "validate_bewit"
        /\ origin.artifact = "bewit"
        /\ origin.roundtrip
        /\ origin.tampered = <<>>
        /\ result.key = credentials.key)
       => IF origin.ttl > 0
          THEN TsLess(now, Unwrap(origin.bewit).exp) => result.outcome = "true"
          ELSE result.outcome = "false"

----------------------------------------------------------------------------
(* Tamper sensitivity (SpecAll).                                           *)

\* C4 as stated: a header or bewit that validates against the sender's Request
\* is rejected after any change of one of method, host, port, path, ts (exp),
\* nonce, hash or ext.
C4_AnyChangeRejected ==
    (/\ result.op \in {"validate_header", "validate_bewit"}
     /\ ~origin.roundtrip
     /\ IF origin.artifact = "header"
        THEN /\ origin.tampered \in
                    {<<"request", f>> : f \in {"method", "host", "port", "path"}}
                    \cup {<<"header", f>> : f \in {"ts", "nonce", "hash", "ext"}}
             /\ ValidateHeaderAt(Unwrap(origin.request), Unwrap(origin.header),
                                 result.key, result.ts_skew, now) = "true"
        ELSE /\ origin.tampered \in
                    {<<"request", f>> : f \in {"method", "host", "port", "path", "hash"}}
                    \cup {<<"bewit", f>> : f \in {"exp", "ext"}}
             /\ ValidateBewitAt(Unwrap(origin.request), Unwrap(origin.bewit),
                                result.key, now) = "true")
    => result.outcome = "false"

\* C4, amended: the change is rejected when it changes the canonical string,
\* that is when a changed ts / exp differs in its whole seconds and a changed
\* hash / ext differs as text, absent counting as empty.
C4_CanonicalChangeRejected ==
    LET Canon(o) == IF IsSome(o) THEN Unwrap(o) ELSE <<>>
        side == origin.tampered[1]
        f == origin.tampered[2]
    IN
    (/\ result.op \in {"validate_header", "validate_bewit"}
     /\ ~origin.roundtrip
     /\ origin.tampered # <<>>
     /\ IF origin.artifact = "header"
        THEN /\ \/ side = "request" /\ f \in {"method", "host", "port", "path"}
                \/ side = "header" /\ f = "nonce"
                \/ /\ side = "header" /\ f = "ts"
                   /\ \/ IsNone(Unwrap(header).ts)
                      \/ Unwrap(Unwrap(header).ts).sec
                            # Unwrap(Unwrap(origin.header).ts).sec
                \/ /\ side = "header" /\ f \in {"hash", "ext"}
                   /\ Canon(Unwrap(header)[f]) # Canon(Unwrap(origin.header)[f])
             /\ ValidateHeaderAt(Unwrap(origin.request), Unwrap(origin.header),
                                 result.key, result.ts_skew, now) = "true"
        ELSE /\ \/ side = "request" /\ f \in {"method", "host", "port", "path"}
                \/ /\ side = "request" /\ f = "hash"
                   /\ Canon(request.hash) # Canon(Unwrap(origin.request).hash)
                \/ /\ side = "bewit" /\ f = "exp"
                   /\ Unwrap(bewit).exp.sec # Unwrap(origin.bewit).exp.sec
                \/ /\ side = "bewit" /\ f = "ext"
                   /\ Canon(Unwrap(bewit).ext) # Canon(Unwrap(origin.bewit).ext)
             /\ ValidateBewitAt(Unwrap(origin.request), Unwrap(origin.bewit),
                                result.key, now) = "true")
    => result.outcome = "false"

\* a good header whose Request changed host, validated with the right key and
\* a ts_skew that covers the clock, and rejected
C4_Witness ==
    /\ result.op = "validate_header"
    /\ origin.tampered = <<"request", "host">>
    /\ ValidateHeaderAt(Unwrap(origin.request), Unwrap(origin.header),
                        result.key, result.ts_skew, now) = "true"
    /\ result.outcome = "false"

----------------------------------------------------------------------------
(* Round trips (SpecHeaderCodec, SpecBewitCodec).                          *)

\* C5 as stated: a Header that Header::new returned, formatted and parsed
\* back, is the same Header field for field.
C5_HeaderRoundTrip ==
    (origin.artifact = "header" /\ origin.roundtrip) => header = origin.header

\* C5, amended: the parsed Header equals the original with the timestamp cut
\* to whole seconds.
C5_HeaderRoundTripWholeSeconds ==
    (origin.artifact = "header" /\ origin.roundtrip)
    => LET h == Unwrap(origin.header)
       IN  header = Some([h EXCEPT !.ts = IF IsSome(h.ts)
                                          THEN Some(Timespec(Unwrap(h.ts).sec, 0))
                                          ELSE None])

\* a Header with every field present, separators inside ext, a time before the
\* epoch, parsed back unchanged
C5_Witness ==
    /\ origin.artifact = "header"
    /\ origin.roundtrip
    /\ header = origin.header
    /\ LET h == Unwrap(header)
       IN  /\ h.id = Some(<<>>)
           /\ h.ts = Some(Timespec(-1, 0))
           /\ h.nonce = Some(Tricky)
           /\ h.mac = Some(<<0, 255, 16, 3>>)
           /\ h.ext = Some(Tricky)
           /\ h.hash = Some(<<7>>)
           /\ IsSome(h.app)
           /\ IsSome(h.dlg)

\* C6: a Bewit from Bewit::new, written by to_str and parsed by from_str,
\* comes back with the same id, exp, mac and ext.
C6_BewitRoundTrip ==
    (origin.artifact = "bewit" /\ origin.roundtrip) => bewit = origin.bewit

----------------------------------------------------------------------------
(* The timestamp window of validate_header (Spec).                         *)

\* C11: for a header whose MAC and hash checks pass, validate_header returns
\* true exactly when the distance between the clock and the header's ts, in
\* either direction, is at most ts_skew.
C11_SkewSymmetric ==
    LET hdr == Unwrap(header)
        Units(t) == t.sec * SubSec + t.nsec
        d == Units(now) - Units(Unwrap(hdr.ts))
        dist == IF d < 0 THEN -d ELSE d
    IN  (/\ result.op = "validate_header"
         /\ IsSome(hdr.ts) /\ IsSome(hdr.nonce) /\ IsSome(hdr.mac)
         /\ HeaderMacCheck(request, hdr, result.key) = "eq"
         /\ HeaderHashOk(request, hdr))
        => ((result.outcome = "true") <=> (dist <= result.ts_skew))

\* a header stamped one unit ahead of the clock, accepted with ts_skew = 1
C11_Witness ==
    /\ result.op = "validate_header"
    /\ origin.tampered = <<>>
    /\ Unwrap(header).ts = Some(TsAdd(now, 1))
    /\ result.ts_skew = 1
    /\ result.outcome = "true"

----------------------------------------------------------------------------
(* Replay (SpecAll).                                                       *)

----------------------------------------------------------------------------
(* Properties of the Mac (SpecMac).                                        *)

\* C13: the text that is signed is the type tag, ts in whole seconds, nonce,
\* method, path, host, port, base64 of the hash or nothing, ext or nothing, in
\* this order, each followed by a newline; the nanoseconds of ts do not change
\* the text nor the Mac.
C13_CanonicalString ==
    IsSome(signing.params) =>
      LET p == Unwrap(signing.params)
          \* "hawk.1.header", "hawk.1.response", "hawk.1.bewit"
          lines == << IF p.mac_type = HeaderType
                      THEN <<104, 97, 119, 107, 46, 49, 46, 104, 101, 97, 100, 101, 114>>
                      ELSE IF p.mac_type = ResponseType
                      THEN <<104, 97, 119, 107, 46, 49, 46, 114, 101, 115, 112, 111, 110, 115, 101>>
                      ELSE <<104, 97, 119, 107, 46, 49, 46, 98, 101, 119, 105, 116>>,
                      FmtInt(p.ts.sec), p.nonce, p.method, p.path, p.host, FmtInt(p.port),
                      IF IsSome(p.hash) THEN B64Encode(Unwrap(p.hash)) ELSE <<>>,
                      IF IsSome(p.ext) THEN Unwrap(p.ext) ELSE <<>> >>
          joined[i \in 0..9] ==
              IF i = 0 THEN <<>> ELSE joined[i - 1] \o lines[i] \o <<NEWLINE>>
      IN  /\ signing.text = Some(joined[9])
          /\ \A n \in 0..(SubSec - 1) :
                LET q == [p EXCEPT !.ts = Timespec(p.ts.sec, n)]
                IN  /\ MacParamsDisplay(q) = Unwrap(signing.text)
                    /\ MacNewSigned(signing.key, q) = Ok(signing.mac)

\* a Bewit-type record with a hash, an ext and nanoseconds in ts was signed
C13_Witness ==
    /\ IsSome(signing.params)
    /\ LET p == Unwrap(signing.params)
       IN  /\ p.mac_type = BewitType
           /\ p.ts.nsec > 0
           /\ IsSome(signing.text)
           /\ signing.mac = Unwrap(MacNewSigned(signing.key, p))

\* C14 as stated: records that differ in type, ts seconds, nonce, method,
\* path, host, port, hash or ext (absent against present included) have
\* different canonical strings.
C14_FramingUnambiguous ==
    (IsSome(signing.params) /\ IsNone(signing.other)) =>
      LET p == Unwrap(signing.params)
      IN  \A q \in MacParamsDomain :
            (\/ q.mac_type # p.mac_type
             \/ q.ts.sec # p.ts.sec
             \/ \E f \in MacParamsFields \ {"mac_type", "ts"} : q[f] # p[f])
            => MacParamsDisplay(q) # Unwrap(signing.text)

\* C14, amended: records whose nonce, method, path, host and ext hold no
\* newline, and that differ in type, ts seconds, nonce, method, path, host,
\* port, hash or ext, an absent hash or ext counting as an empty one, have
\* different canonical strings.
C14_FramingUnambiguousWithoutNewlines ==
    (IsSome(signing.params) /\ IsNone(signing.other)) =>
      LET p == Unwrap(signing.params)
          Canon(o) == IF IsSome(o) THEN Unwrap(o) ELSE <<>>
          Plain(r) == \A f \in {"nonce", "method", "path", "host"} :
                         ~Contains(r[f], NEWLINE) /\ ~Contains(Canon(r.ext), NEWLINE)
      IN  \A q \in MacParamsDomain :
            (/\ Plain(p)
             /\ Plain(q)
             /\ \/ q.mac_type # p.mac_type
                \/ q.ts.sec # p.ts.sec
                \/ \E f \in {"nonce", "method", "path", "host", "port"} : q[f] # p[f]
                \/ Canon(q.hash) # Canon(p.hash)
                \/ Canon(q.ext) # Canon(p.ext))
            => MacParamsDisplay(q) # Unwrap(signing.text)

\* a record with a hash and an ext was signed, and the record without the hash
\* has another canonical string
C14_Witness ==
    /\ IsSome(signing.params)
    /\ LET p == Unwrap(signing.params)
       IN  /\ p.hash = Some(<<7>>)
           /\ p.ext = Some(<<101>>)
           /\ [p EXCEPT !.hash = None] \in MacParamsDomain
           /\ MacParamsDisplay([p EXCEPT !.hash = None]) # Unwrap(signing.text)

\* C15: after any number of sign calls on one Mac, whatever bytes it held
\* before, its bytes are those of Mac::new_signed for the key and parameters of
\* the last call.
C15_ResignOverwrites ==
    signing.signs > 0
    => Ok(signing.mac) = MacNewSigned(signing.key, Unwrap(signing.params))

\* a Mac signed twice holds the signature of the second call, four bytes long
C15_Witness ==
    /\ signing.signs = 2
    /\ signing.key = 2
    /\ Unwrap(signing.params).ext = Some(<<101>>)
    /\ Len(signing.mac) = 4
    /\ Ok(signing.mac) = MacNewSigned(signing.key, Unwrap(signing.params))

\* C16: comparing two Macs never aborts: Macs of different lengths are not
\* equal, Macs of the same length are equal exactly when their bytes are.
C16_MacEqualityTotal ==
    result.op = "eq"
    => result.outcome = (IF signing.mac = Unwrap(signing.other) THEN "eq" ELSE "ne")

----------------------------------------------------------------------------
(* What make_header_full puts into the header (Spec).                      *)

\* C18: the id is not signed, and id, app and dlg do not influence
\* validate_header: Credentials with the same key and another id give the same
\* mac, and a header changed only in id, app or dlg (the id removed included)
\* is validated like the unchanged one.
C18_IdAppDlgNotAuthenticated ==
    /\ origin.artifact = "header"
       => \A id \in {<<109, 101>>, <<121, 111, 117>>} :
            LET h == Unwrap(origin.header)
                r == MakeHeaderFull(Unwrap(origin.request),
                                    Credentials(id, credentials.key),
                                    Unwrap(h.ts), Unwrap(h.nonce))
            IN  IsOk(r) /\ Unwrap(r).mac = h.mac
    /\ (/\ result.op = "validate_header"
        /\ origin.tampered \in {<<"header", "id">>, <<"header", "app">>, <<"header", "dlg">>})
       => result.outcome = ValidateHeaderAt(request, Unwrap(origin.header), result.key,
                                           result.ts_skew, now)

\* a header that lost its id is accepted
C18_Witness ==
    /\ result.op = "validate_header"
    /\ origin.tampered = <<"header", "id">>
    /\ IsNone(Unwrap(header).id)
    /\ result.outcome = "true"

\* C19: the header make_header_full returns holds the id of the Credentials,
\* the given ts and nonce, the Header-type MAC over ts, nonce and the Request's
\* method, host, port, path, hash and ext, and the Request's ext, hash, app
\* and dlg, each present exactly when the Request has it.
C19_HeaderFullyPopulated ==
    (origin.artifact = "header" /\ IsSome(origin.ts))
    => LET h == Unwrap(origin.header)
           r == Unwrap(origin.request)
           ts == Unwrap(origin.ts)
           nonce == Unwrap(origin.nonce)
       IN  /\ h.id = Some(credentials.id)
           /\ h.ts = Some(ts)
           /\ h.nonce = Some(nonce)
           /\ h.mac = Some(Unwrap(MacNew(HeaderType, credentials.key, ts, nonce,
                                         r.method, r.host, r.port, r.path,
                                         r.hash, r.ext)))
           /\ h.ext = r.ext
           /\ h.hash = r.hash
           /\ h.app = r.app
           /\ h.dlg = r.dlg

\* make_header_full returned a header for a Request with hash and app set and
\* ext and dlg not set, at a ts that is not the clock's reading
C19_Witness ==
    /\ result.op = "make_header_full"
    /\ result.outcome = "ok"
    /\ origin.tampered = <<>>
    /\ IsSome(header)
    /\ IsSome(request.hash) /\ IsSome(request.app)
    /\ IsNone(request.ext) /\ IsNone(request.dlg)
    /\ origin.ts # Some(now)

----------------------------------------------------------------------------
(* No double quote in a Header's strings (SpecHeaderCodec).                *)

\* C20: Header::new returns an error exactly when one of id, nonce, ext, app
\* and dlg holds a double quote, and otherwise a header that holds the given
\* values; no header that Header::new, make_header_full or Header::from_str
\* returned has a double quote in id, nonce, ext, app or dlg.
C20_NoQuoteInHeader ==
    LET Quoted(v) == IsSome(v) /\ Contains(Unwrap(v), QUOTE)
        AnyQuoted(h) == Quoted(h.id) \/ Quoted(h.nonce) \/ Quoted(h.ext)
                        \/ Quoted(h.app) \/ Quoted(h.dlg)
    IN  /\ IsSome(header) => ~AnyQuoted(Unwrap(header))
        /\ result.op = "new"
           => LET a == Unwrap(origin.args)
              IN  /\ (result.outcome = "err") <=> AnyQuoted(a)
                  /\ (result.outcome = "ok") => header = Some(a)

\* Header::new refused arguments whose only double quote is in dlg
C20_Witness ==
    /\ result.op = "new"
    /\ result.outcome = "err"
    /\ IsSome(origin.args)
    /\ LET a == Unwrap(origin.args)
       IN  /\ a.id = Some(<<97>>) /\ a.nonce = Some(<<97>>)
           /\ a.ext = Some(<<97>>) /\ a.app = Some(<<97>>)
           /\ a.dlg = Some(<<109, 34, 101>>)

----------------------------------------------------------------------------
(* The text of a Header (SpecHeaderCodec).                                 *)

\* C21: the text of a Header is its present fields in the order id, ts,
\* nonce, mac, ext, hash, app, dlg, each as name="value", joined by ", " with
\* nothing in front and nothing behind; an absent field writes nothing, ts is
\* written as decimal seconds, mac and hash as padded standard base64.
C21_HeaderText ==
    result.op = "to_string"
    => LET h == Unwrap(header)
           Text(v) == IF IsSome(v) THEN Some(Unwrap(v)) ELSE None
           Bytes(v) == IF IsSome(v) THEN Some(B64Encode(Unwrap(v))) ELSE None
           all == << <<NameId, Text(h.id)>>,
                     <<NameTs, IF IsSome(h.ts) THEN Some(FmtInt(Unwrap(h.ts).sec)) ELSE None>>,
                     <<NameNonce, Text(h.nonce)>>,
                     <<NameMac, Bytes(h.mac)>>,
                     <<NameExt, Text(h.ext)>>,
                     <<NameHash, Bytes(h.hash)>>,
                     <<NameApp, Text(h.app)>>,
                     <<NameDlg, Text(h.dlg)>> >>
           Present(f) == IsSome(f[2])
           present == SelectSeq(all, Present)
           Item(f) == f[1] \o <<EQUALS, QUOTE>> \o Unwrap(f[2]) \o <<QUOTE>>
           joined[i \in 0..Len(present)] ==
               IF i = 0 THEN <<>>
               ELSE IF i = 1 THEN Item(present[1])
               ELSE joined[i - 1] \o <<COMMA, SPACE>> \o Item(present[i])
           Padded(v) == IsSome(v) => /\ Len(B64Encode(Unwrap(v))) % 4 = 0
                                     /\ B64Decode(B64Encode(Unwrap(v))) = Ok(Unwrap(v))
       IN  /\ wire = Some(joined[Len(present)])
           /\ (h = EmptyHeader) => wire = Some(<<>>)
           /\ Padded(h.mac) /\ Padded(h.hash)

\* the text of a Header without id and dlg, with a ts before the epoch and a
\* mac: ts="-1", mac="AP8QAw=="
C21_Witness ==
    /\ result.op = "to_string"
    /\ header = Some([EmptyHeader EXCEPT !.ts = Some(Timespec(-1, 0)),
                                         !.mac = Some(<<0, 255, 16, 3>>)])
    /\ wire = Some(<<116, 115, 61, 34, 45, 49, 34, 44, 32,
                     109, 97, 99, 61, 34, 65, 80, 56, 81, 65, 119, 61, 61, 34>>)

----------------------------------------------------------------------------
(* Header::from_str on texts put together from fields (SpecHeaderCodec).   *)

\* C22: a text of well-formed fields in any order, with commas and blanks in
\* front of the first field, between the fields and around '=', and with
\* nothing or blanks behind the last one, parses to the header that has
\* exactly the fields named in the text, each with the value between its
\* quotes; the empty text parses to the header without fields.
C22_ParseWellFormed ==
    (/\ origin.artifact = "text"
     /\ Unwrap(origin.args).tail \in {"none", "blank"}
     /\ \A i \in 1..Len(Unwrap(origin.args).fields) :
           Unwrap(origin.args).fields[i].class = "ok")
    => LET fields == Unwrap(origin.args).fields
           Occurs(f) == {i \in 1..Len(fields) : fields[i].field = f}
           Last(f) == CHOOSE i \in Occurs(f) : \A j \in Occurs(f) : j <= i
           Expected(f) == IF Occurs(f) = {} THEN None ELSE fields[Last(f)].sets[f]
           h == Unwrap(header)
       IN  /\ result.outcome = "ok"
           /\ IsSome(header)
           /\ h.id = Expected("id") /\ h.ts = Expected("ts")
           /\ h.nonce = Expected("nonce") /\ h.mac = Expected("mac")
           /\ h.ext = Expected("ext") /\ h.hash = Expected("hash")
           /\ h.app = Expected("app") /\ h.dlg = Expected("dlg")

\* the text  dlg="d" ,<tab>, ts<tab>="+3" <tab>  parsed to a header with
\* dlg = "d" and ts = 3 and nothing else
C22_Witness ==
    /\ origin.artifact = "text"
    /\ IsSome(origin.args)
    /\ Unwrap(origin.args).text =
         FieldText(NameDlg, <<>>, <<>>, <<100>>) \o <<SPACE, COMMA, 9, COMMA, SPACE>>
         \o FieldText(NameTs, <<9>>, <<>>, <<43, 51>>) \o <<SPACE, 9>>
    /\ header = Some([EmptyHeader EXCEPT !.dlg = Some(<<100>>),
                                         !.ts = Some(Timespec(3, 0))])

\* C23: a text with a field whose name is not one of the eight, whose ts is
\* not a signed 64-bit decimal integer, whose mac or hash is not base64, that
\* has no '=', no opening quote or no closing quote, or a text with other
\* characters behind the last value, is refused, and no Header is returned.
C23_MalformedRejected ==
    (/\ origin.artifact = "text"
     /\ \/ Unwrap(origin.args).tail = "garbage"
        \/ \E i \in 1..Len(Unwrap(origin.args).fields) :
             Unwrap(origin.args).fields[i].class # "ok")
    => (result.outcome = "err" /\ header = None)

\* the text  id="a", ts="9223372036854775808"  was refused
C23_Witness ==
    /\ origin.artifact = "text"
    /\ IsSome(origin.args)
    /\ Unwrap(origin.args).text =
         FieldText(NameId, <<>>, <<>>, <<97>>) \o <<COMMA, SPACE>>
         \o FieldText(NameTs, <<>>, <<>>, Upto(I64MaxDigits, 18) \o <<56>>)
    /\ result.outcome = "err"
    /\ header = None

\* C24: when a field name occurs twice in a text of well-formed fields, the
\* text parses and the field holds the value of the second occurrence.
C24_LastOccurrenceWins ==
    (/\ origin.artifact = "text"
     /\ Len(Unwrap(origin.args).fields) = 2
     /\ Unwrap(origin.args).tail \in {"none", "blank"}
     /\ Unwrap(origin.args).fields[1].class = "ok"
     /\ Unwrap(origin.args).fields[2].class = "ok"
     /\ Unwrap(origin.args).fields[1].field = Unwrap(origin.args).fields[2].field)
    => /\ result.outcome = "ok"
       /\ header = Some(Unwrap(origin.args).fields[2].sets)

\* the text  ts="12",ts="-1"  parsed to a header with ts = -1
C24_Witness ==
    /\ origin.artifact = "text"
    /\ IsSome(origin.args)
    /\ Unwrap(origin.args).text =
         FieldText(NameTs, <<>>, <<>>, <<49, 50>>) \o <<COMMA>>
         \o FieldText(NameTs, <<>>, <<>>, <<45, 49>>)
    /\ header = Some([EmptyHeader EXCEPT !.ts = Some(Timespec(-1, 0))])

\* C30: blanks behind the last value are accepted; a comma behind it, with
\* or without blanks around, is refused; a text of separators only is
\* refused; the empty text parses to the header without fields.
C30_TailAsymmetry ==
    (/\ origin.artifact = "text"
     /\ \A i \in 1..Len(Unwrap(origin.args).fields) :
           Unwrap(origin.args).fields[i].class = "ok")
    => LET c == Unwrap(origin.args)
       IN  /\ (c.fields # <<>> /\ c.tail = "blank") => result.outcome = "ok"
           /\ c.tail = "comma" => result.outcome = "err"
           /\ c.tail = "separators" => result.outcome = "err"
           /\ c.text = <<>> => header = Some(EmptyHeader)
           /\ header = Some(EmptyHeader) => c.text = <<>>

\* the text  id="a" , (a comma with blanks around it behind the value) was
\* refused
C30_Witness ==
    /\ origin.artifact = "text"
    /\ IsSome(origin.args)
    /\ Unwrap(origin.args).text =
         FieldText(NameId, <<>>, <<>>, <<97>>) \o <<SPACE, COMMA, SPACE>>
    /\ result.outcome = "err"

----------------------------------------------------------------------------
(* Bewit::from_str on texts put together from parts (SpecBewitCodec).      *)

\* C25: a text whose decoded bytes are parts joined by backslashes parses
\* exactly when there are four parts, the id is UTF-8, the exp is a signed
\* 64-bit decimal integer, the mac is base64 and the ext is UTF-8; the Bewit
\* then holds these, with ext absent for an empty fourth part and present
\* with its text otherwise.
C25_BewitParts ==
    origin.artifact = "text"
    => LET c == Unwrap(origin.args)
       IN  /\ (result.outcome = "ok") <=> (c.count = 4 /\ c.good)
           /\ (result.outcome = "ok") => bewit = Some(c.bewit)
           /\ (result.outcome = "ok" /\ c.ext = <<>>) => IsNone(Unwrap(bewit).ext)
           /\ (result.outcome = "ok" /\ c.ext # <<>>) => Unwrap(bewit).ext = Some(c.ext)
           /\ (result.outcome = "err") => bewit = None

\* five parts, each of them good, were refused
C25_Witness ==
    /\ origin.artifact = "text"
    /\ IsSome(origin.args)
    /\ Unwrap(origin.args).count = 5
    /\ Unwrap(origin.args).good
    /\ Unwrap(origin.args).ext = <<101>>
    /\ result.op = "from_str"
    /\ result.outcome = "err"

----------------------------------------------------------------------------
(* The payload hash (SpecPayload).                                         *)

\* C26: the hash that finish returns after any chunks, and the hash that the
\* one-shot hash returns, is the digest of "hawk.1.payload\n", the content
\* type, a newline, the chunks one after the other and one newline; it equals
\* the one-shot hash of the same content type, digest and whole body.
C26_ChunkInvariance ==
    IsSome(hasher.out)
    => LET body == Concat(hasher.chunks)
           stream == PayloadPrefix \o hasher.content_type \o <<NEWLINE>> \o body
                     \o <<NEWLINE>>
       IN  /\ Unwrap(hasher.out) =
                HasherFinish(HasherUpdate(HasherNew(hasher.digest), stream), hasher.digest)
           /\ Unwrap(hasher.out) =
                PayloadHasherHash(hasher.content_type, hasher.digest, body)
           /\ Len(Unwrap(hasher.out)) = DigestSize(hasher.digest)

\* a hasher fed "p", an empty chunk and the two bytes of a-grave was finished
C26_Witness ==
    /\ hasher.op = "finish"
    /\ hasher.chunks = <<<<112>>, <<>>, <<195, 160>>>>
    /\ IsSome(hasher.out)

----------------------------------------------------------------------------
(* Bewits and the Request they are made from (SpecBewit, SpecBewitCodec).  *)

\* C27: a bewit that make_bewit made from a Request whose method is not GET
\* or that has a hash is not accepted: validate_bewit on that Request returns
\* false for it.
C27_BewitOnlyForGetWithoutHash ==
    (/\ result.op = "validate_bewit"
     /\ origin.artifact = "bewit"
     /\ origin.tampered = <<>>
     /\ ~origin.roundtrip
     /\ request.method # GET \/ IsSome(request.hash))
    => result.outcome = "false"

\* C28: every text that Bewit::to_str writes passes the base64 stage of
\* Bewit::from_str.
C28_DecodeReadsWhatEncodeWrites ==
    (origin.artifact = "bewit" /\ result.op = "to_str" /\ IsSome(wire))
    => IsOk(B64Decode(Unwrap(wire)))

----------------------------------------------------------------------------
(* A MAC of one kind handed to the validation of the other (SpecCross).    *)

\* C29: validate_header does not accept the MAC of a bewit and validate_bewit
\* does not accept the MAC of a header, also when ts and exp, the empty nonce,
\* method, host, port, path, hash and ext are the same on both sides.
C29_KindsKeptApart ==
    /\ (result.op = "validate_header" /\ origin.tampered = <<"bewit", "as header">>)
       => result.outcome = "false"
    /\ (result.op = "validate_bewit" /\ origin.tampered = <<"header", "as bewit">>)
       => result.outcome = "false"

\* a bewit's fields, handed over as a header within ts_skew of the clock and
\* validated with the key that signed the bewit, were refused
C29_Witness ==
    /\ result.op = "validate_header"
    /\ origin.tampered = <<"bewit", "as header">>
    /\ result.key = credentials.key
    /\ Unwrap(header).ts = Some(Unwrap(origin.bewit).exp)
    /\ Unwrap(header).mac = Some(Unwrap(origin.bewit).mac)
    /\ HeaderHashOk(request, Unwrap(header))
    /\ HeaderSkewOk(Unwrap(Unwrap(header).ts), result.ts_skew, now)
    /\ result.outcome = "false"

====
